---- MODULE Spec2Model ----
(***************************************************************************)
(* Accounting-policy enforcement engine of slurmctld                       *)
(* (src/src/slurmctld/acct_policy.c): the usage counters kept on QOS       *)
(* records, per-user records and associations, the lifecycle operations    *)
(* that update them, and the admission checks that read them.              *)
(*                                                                         *)
(* Machine words.  The C code works on uint32_t and uint64_t.  The model   *)
(* keeps the same modular arithmetic on narrower words: a "32-bit" word    *)
(* has WordBits bits and a "64-bit" word three times as many.  INFINITE and *)
(* NO_VAL are the two largest values of the narrow word, as in the code,   *)
(* and the sign bit of the narrow word plays the role of bit 31 in the     *)
(* (int32_t) casts.                                                        *)
(***************************************************************************)
EXTENDS Integers, Sequences, FiniteSets, TLC

WordBits == 8

Word32 == 2 ^ WordBits

\* wide enough for cpus * time_limit * 60 never to wrap, as in the code
Word64 == Word32 * Word32 * Word32

SignBit32 == Word32 \div 2

INFINITE == Word32 - 1

NO_VAL == Word32 - 2

MEM_PER_CPU == SignBit32

ADMIN_SET_LIMIT == Word32 - 1

U32(x) == x % Word32

U64(x) == x % Word64

Int32Neg(x) == x >= SignBit32

MIN(a, b) == IF a < b THEN a ELSE b

(***************************************************************************)
(* Sizes of the modelled system.                                           *)
(***************************************************************************)
NumJobs == 2

MaxOps == 4

NumUsers == 2

JobIds == 1..NumJobs

Users == 1..NumUsers

QosIds == 1..2

PartIds == 1..2

\* Associations: one user association per user, then the account
\* association they hang from, then the root association.
AcctAssoc == NumUsers + 1

RootAssoc == NumUsers + 2

AssocIds == 1..RootAssoc

VARIABLES
    accounting_enforce,   \* set of flags of the global bitmask
    qos,                  \* QOS table: id -> slurmdb_qos_rec_t (limits and usage)
    assoc,                \* association table: id -> slurmdb_assoc_rec_t
    part,                 \* partitions: id -> part_record
    job,                  \* jobs: id -> job_record
    hist,                 \* per job: lifecycle calls issued so far
    nops,                 \* number of operations issued
    rt,                   \* record of the last alter_job calls
    ret                   \* what the last operation returned

vars == <<accounting_enforce, qos, assoc, part, job, hist, nops, rt, ret>>

(***************************************************************************)
(* Records.                                                                *)
(***************************************************************************)
QosLimitNames ==
    {"grp_cpu_mins", "grp_cpu_run_mins", "grp_cpus", "grp_jobs", "grp_mem",
     "grp_nodes", "grp_submit_jobs", "grp_wall", "max_cpu_mins_pj",
     "max_cpus_pj", "max_cpus_pu", "max_jobs_pu", "max_nodes_pj",
     "max_nodes_pu", "max_submit_jobs_pu", "max_wall_pj", "min_cpus_pj"}

\* slurmdb_init_qos_rec(&qos_rec, 0, INFINITE): every limit INFINITE.
InitQosLimits == [n \in QosLimitNames |-> INFINITE]

InitQosUsage ==
    [grp_used_cpus |-> 0, grp_used_mem |-> 0, grp_used_nodes |-> 0,
     grp_used_jobs |-> 0, grp_used_submit_jobs |-> 0,
     grp_used_cpu_run_secs |-> 0, grp_used_wall |-> 0, usage_raw |-> 0,
     user_limit_list |-> << >>]

InitQosRec == [lim |-> InitQosLimits, flags |-> {}, usage |-> InitQosUsage]

AssocLimitNames ==
    {"grp_cpu_mins", "grp_cpu_run_mins", "grp_cpus", "grp_tres_mem",
     "grp_jobs", "grp_mem", "grp_nodes", "grp_submit_jobs", "grp_wall",
     "max_cpu_mins_pj", "max_cpus_pj", "max_tres_mem", "max_jobs",
     "max_nodes_pj", "max_submit_jobs", "max_wall_pj"}

InitAssocLimits == [n \in AssocLimitNames |-> INFINITE]

InitAssocUsage ==
    [used_jobs |-> 0, used_submit_jobs |-> 0, grp_used_cpus |-> 0,
     grp_used_mem |-> 0, grp_used_nodes |-> 0, grp_used_cpu_run_secs |-> 0,
     grp_used_wall |-> 0, usage_raw |-> 0]

\* The association tree: user associations under the account association,
\* the account association under the root, the root without parent.
ParentOf(a) ==
    IF a \in Users THEN AcctAssoc
    ELSE IF a = AcctAssoc THEN RootAssoc
    ELSE 0

InitAssocRec(a) ==
    [id |-> a,
     uid |-> IF a \in Users THEN a ELSE NO_VAL,
     acct |-> "acct",
     lim |-> InitAssocLimits,
     usage |-> InitAssocUsage,
     parent_assoc_ptr |-> ParentOf(a)]

InitLimitSet ==
    [time |-> 0, max_nodes |-> 0, min_nodes |-> 0,
     max_tres_cpu |-> 0, max_tres_mem |-> 0, min_tres_cpu |-> 0]

NoRet == [op |-> "none"]

NoRt == [stage |-> 0]

(***************************************************************************)
(* _set_qos_order: the ordered pair (qos_ptr_1, qos_ptr_2) of a job.       *)
(* 0 stands for the NULL pointer.                                          *)
(***************************************************************************)
PartQos(parts, jb) ==
    IF jb.part_ptr # 0 THEN parts[jb.part_ptr].qos_ptr ELSE 0

SetQosOrderNoDedupe(qtab, parts, jb) ==
    IF jb.qos_ptr # 0
    THEN IF jb.part_ptr # 0 /\ parts[jb.part_ptr].qos_ptr # 0
         THEN IF "PART_QOS" \in qtab[jb.qos_ptr].flags
              THEN <<jb.qos_ptr, parts[jb.part_ptr].qos_ptr>>
              ELSE <<parts[jb.part_ptr].qos_ptr, jb.qos_ptr>>
         ELSE <<jb.qos_ptr, 0>>
    ELSE <<0, PartQos(parts, jb)>>

_set_qos_order(qtab, parts, jb) ==
    IF jb.qos_ptr # 0
    THEN IF jb.part_ptr # 0 /\ parts[jb.part_ptr].qos_ptr # 0
         THEN LET p1 == IF "PART_QOS" \in qtab[jb.qos_ptr].flags
                        THEN jb.qos_ptr ELSE parts[jb.part_ptr].qos_ptr
                  p2 == IF "PART_QOS" \in qtab[jb.qos_ptr].flags
                        THEN parts[jb.part_ptr].qos_ptr ELSE jb.qos_ptr
              IN  IF p1 = p2 THEN <<p1, 0>> ELSE <<p1, p2>>
         ELSE <<jb.qos_ptr, 0>>
    ELSE IF jb.part_ptr # 0 /\ parts[jb.part_ptr].qos_ptr # 0
         THEN <<parts[jb.part_ptr].qos_ptr, 0>>
         ELSE <<0, 0>>

\* A lookup that never finds the user's entry.
GetUsedLimitsNeverFound(list, uid) == 0

(***************************************************************************)
(* _get_used_limits_for_user: index of the first entry of the list with    *)
(* the uid, 0 when there is none.                                          *)
(***************************************************************************)
_get_used_limits_for_user(list, uid) ==
    IF \E i \in 1..Len(list) : list[i].uid = uid
    THEN CHOOSE i \in 1..Len(list) :
            /\ list[i].uid = uid
            /\ \A k \in 1..(i - 1) : list[k].uid # uid
    ELSE 0

NewUsedLimits(uid) ==
    [uid |-> uid, cpus |-> 0, jobs |-> 0, nodes |-> 0, submit_jobs |-> 0]

(***************************************************************************)
(* assoc_mgr_fill_in_assoc: look the association up by (account, uid).     *)
(* 0 when there is none.                                                   *)
(***************************************************************************)
assoc_mgr_fill_in_assoc(atab, jb) ==
    IF \E a \in AssocIds : atab[a].acct = jb.account /\ atab[a].uid = jb.user_id
    THEN CHOOSE a \in AssocIds :
            atab[a].acct = jb.account /\ atab[a].uid = jb.user_id
    ELSE 0

\* A check of the pointer that trusts every pointer.
AssocPtrNeverStale(atab, jb) == FALSE

\* _valid_job_assoc: the job record after the call (re-bound when the
\* pointer was stale and the lookup succeeded) and the value returned.
AssocPtrStale(atab, jb) ==
    \/ jb.assoc_ptr = 0
    \/ atab[jb.assoc_ptr].id # jb.assoc_id
    \/ atab[jb.assoc_ptr].uid # jb.user_id

_valid_job_assoc(atab, jb) ==
    IF AssocPtrStale(atab, jb)
    THEN LET found == assoc_mgr_fill_in_assoc(atab, jb)
         IN  IF found = 0
             THEN [ok |-> FALSE, job |-> jb]
             ELSE [ok |-> TRUE,
                   job |-> [jb EXCEPT !.assoc_ptr = found, !.assoc_id = found]]
    ELSE [ok |-> TRUE, job |-> jb]

(***************************************************************************)
(* The decrement idioms of the usage adjuster.                             *)
(***************************************************************************)
\* x -= d; if ((int32_t)x < 0) x = 0;
SubNoClamp32(c, d) == U32(c - d)

SubClamp32(c, d) ==
    LET r == U32(c - d) IN IF Int32Neg(r) THEN 0 ELSE r

\* if (x) x--; else debug2("underflow")
KeepCount(c) == c

\* x-- without the test: the counter wraps at 0.
DecWrap(c) == U32(c - 1)

DecIfNonzero(c) == IF c # 0 THEN c - 1 ELSE 0

\* job_memory of _adjust_limit_usage (uint32_t arithmetic)
JobMemory(pn_min_memory, cpus, node_cnt) ==
    IF pn_min_memory = 0 THEN 0
    ELSE IF pn_min_memory >= MEM_PER_CPU
         THEN U32((pn_min_memory - MEM_PER_CPU) * cpus)
         ELSE U32(pn_min_memory * node_cnt)

\* (uint64_t)total_cpus * (uint64_t)time_limit * 60
CpuRunMins(cpus, time_limit) == U64(cpus * time_limit)

CpuRunSecs(cpus, time_limit) == U64(cpus * time_limit * 60)

(***************************************************************************)
(* _qos_adjust_limit_usage on one QOS record: the record afterwards.       *)
(***************************************************************************)
_qos_adjust_limit_usage(type, jb, q, node_cnt, used_cpu_run_secs, job_memory) ==
    LET list0 == q.usage.user_limit_list
        idx0 == _get_used_limits_for_user(list0, jb.user_id)
        list1 == IF idx0 = 0 THEN Append(list0, NewUsedLimits(jb.user_id))
                 ELSE list0
        idx == IF idx0 = 0 THEN Len(list1) ELSE idx0
        ul == list1[idx]
        u == q.usage
    IN  CASE type = "ADD_SUBMIT" ->
              [q EXCEPT !.usage =
                  [u EXCEPT
                     !.grp_used_submit_jobs = U32(u.grp_used_submit_jobs + 1),
                     !.user_limit_list =
                        [list1 EXCEPT ![idx].submit_jobs = U32(ul.submit_jobs + 1)]]]
          [] type = "REM_SUBMIT" ->
              [q EXCEPT !.usage =
                  [u EXCEPT
                     !.grp_used_submit_jobs = DecIfNonzero(u.grp_used_submit_jobs),
                     !.user_limit_list =
                        [list1 EXCEPT ![idx].submit_jobs = DecIfNonzero(ul.submit_jobs)]]]
          [] type = "JOB_BEGIN" ->
              [q EXCEPT !.usage =
                  [u EXCEPT
                     !.grp_used_jobs = U32(u.grp_used_jobs + 1),
                     !.grp_used_cpus = U32(u.grp_used_cpus + jb.total_cpus),
                     !.grp_used_mem = U32(u.grp_used_mem + job_memory),
                     !.grp_used_nodes = U32(u.grp_used_nodes + node_cnt),
                     !.grp_used_cpu_run_secs =
                        U64(u.grp_used_cpu_run_secs + used_cpu_run_secs),
                     !.user_limit_list =
                        [list1 EXCEPT
                           ![idx].jobs = U32(ul.jobs + 1),
                           ![idx].cpus = U32(ul.cpus + jb.total_cpus),
                           ![idx].nodes = U32(ul.nodes + node_cnt)]]]
          [] type = "JOB_FINI" ->
              [q EXCEPT !.usage =
                  [u EXCEPT
                     !.grp_used_jobs = SubClamp32(u.grp_used_jobs, 1),
                     !.grp_used_cpus = SubClamp32(u.grp_used_cpus, jb.total_cpus),
                     !.grp_used_mem = SubClamp32(u.grp_used_mem, job_memory),
                     !.grp_used_nodes = SubClamp32(u.grp_used_nodes, node_cnt),
                     !.user_limit_list =
                        [list1 EXCEPT
                           ![idx].cpus = SubClamp32(ul.cpus, jb.total_cpus),
                           ![idx].jobs = SubClamp32(ul.jobs, 1),
                           ![idx].nodes = SubClamp32(ul.nodes, node_cnt)]]]

\* The same on the QOS table, for a pointer that may be NULL.
QosAdjust(type, jb, qtab, qp, node_cnt, used_cpu_run_secs, job_memory) ==
    IF qp = 0 THEN qtab
    ELSE [qtab EXCEPT ![qp] =
            _qos_adjust_limit_usage(type, jb, qtab[qp], node_cnt,
                                    used_cpu_run_secs, job_memory)]

(***************************************************************************)
(* The association loop of _adjust_limit_usage: one association, and the   *)
(* walk "while (assoc_ptr) ... assoc_ptr = parent_assoc_ptr".              *)
(***************************************************************************)
AssocAdjustOne(type, jb, a, node_cnt, used_cpu_run_secs, job_memory) ==
    LET u == a.usage
    IN  CASE type = "ADD_SUBMIT" ->
              [a EXCEPT !.usage.used_submit_jobs = U32(u.used_submit_jobs + 1)]
          [] type = "REM_SUBMIT" ->
              [a EXCEPT !.usage.used_submit_jobs = DecIfNonzero(u.used_submit_jobs)]
          [] type = "JOB_BEGIN" ->
              [a EXCEPT !.usage =
                  [u EXCEPT
                     !.used_jobs = U32(u.used_jobs + 1),
                     !.grp_used_cpus = U32(u.grp_used_cpus + jb.total_cpus),
                     !.grp_used_mem = U32(u.grp_used_mem + job_memory),
                     !.grp_used_nodes = U32(u.grp_used_nodes + node_cnt),
                     !.grp_used_cpu_run_secs =
                        U64(u.grp_used_cpu_run_secs + used_cpu_run_secs)]]
          [] type = "JOB_FINI" ->
              [a EXCEPT !.usage =
                  [u EXCEPT
                     !.used_jobs = DecIfNonzero(u.used_jobs),
                     !.grp_used_cpus = SubClamp32(u.grp_used_cpus, jb.total_cpus),
                     !.grp_used_mem = SubClamp32(u.grp_used_mem, job_memory),
                     !.grp_used_nodes = SubClamp32(u.grp_used_nodes, node_cnt)]]

AssocAdjustFirstOnly(type, jb, atab, ap, node_cnt, used_cpu_run_secs, job_memory) ==
    IF ap = 0 THEN atab
    ELSE [atab EXCEPT ![ap] = AssocAdjustOne(type, jb, atab[ap], node_cnt,
                                             used_cpu_run_secs, job_memory)]

\* A walk that stops below the root association.
RECURSIVE AssocAdjustWalkBelowRoot(_, _, _, _, _, _, _)
AssocAdjustWalkBelowRoot(type, jb, atab, ap, node_cnt, used_cpu_run_secs, job_memory) ==
    IF ap = 0 \/ atab[ap].parent_assoc_ptr = 0 THEN atab
    ELSE AssocAdjustWalkBelowRoot(
            type, jb,
            [atab EXCEPT ![ap] = AssocAdjustOne(type, jb, atab[ap], node_cnt,
                                                used_cpu_run_secs, job_memory)],
            atab[ap].parent_assoc_ptr, node_cnt, used_cpu_run_secs, job_memory)

RECURSIVE AssocAdjustWalk(_, _, _, _, _, _, _)
AssocAdjustWalk(type, jb, atab, ap, node_cnt, used_cpu_run_secs, job_memory) ==
    IF ap = 0 THEN atab
    ELSE AssocAdjustWalk(
            type, jb,
            [atab EXCEPT ![ap] = AssocAdjustOne(type, jb, atab[ap], node_cnt,
                                                used_cpu_run_secs, job_memory)],
            atab[ap].parent_assoc_ptr, node_cnt, used_cpu_run_secs, job_memory)

\* The chain of associations of a pointer, the pointer's own first.
RECURSIVE AssocChain(_, _)
AssocChain(atab, ap) ==
    IF ap = 0 THEN << >>
    ELSE <<ap>> \o AssocChain(atab, atab[ap].parent_assoc_ptr)

(***************************************************************************)
(* Jobs of the lifecycle specification.                                    *)
(***************************************************************************)
MkJob(uid, ap, account, qp, pp, cpus, nodes, tl, mem) ==
    [user_id |-> uid, assoc_ptr |-> ap, assoc_id |-> ap, account |-> account,
     qos_ptr |-> qp, part_ptr |-> pp, total_cpus |-> cpus, node_cnt |-> nodes,
     time_limit |-> tl, pn_min_memory |-> mem, job_state |-> "PENDING",
     end_time_exp |-> 0, state_reason |-> "WAIT_NO_REASON",
     limit_set |-> InitLimitSet]

\* Job 1 always has a QOS of its own and runs in the partition that has a
\* partition QOS; the other jobs cover the remaining shapes: a job with
\* the partition QOS only, a job whose QOS is the partition's QOS, a job
\* whose association pointer is not bound yet, a job whose account is
\* gone, and a job without any QOS.
FirstJobs ==
    {MkJob(1, 1, "acct", 1, 1, 2, 1, 2, MEM_PER_CPU + 1),
     MkJob(1, 0, "acct", 1, 1, 1, 2, 1, 3)}

OtherJobs ==
    <<MkJob(1, 1, "acct", 0, 1, 1, 1, 1, 2),
      MkJob(2, 2, "acct", 2, 1, 3, 2, 2, 0),
      MkJob(2, 0, "gone", 1, 2, 1, 1, 1, 0),
      MkJob(2, 2, "acct", 0, 2, 2, 1, 1, MEM_PER_CPU + 2)>>

\* The job table of a scenario: the first job f, the others taken from
\* OtherJobs in turn, starting after k.
JobTable(f, k) ==
    [j \in JobIds |-> IF j = 1 THEN f
                      ELSE OtherJobs[((k + j) % Len(OtherJobs)) + 1]]

TimeVals == {2, INFINITE}

InitHist ==
    [add |-> 0, rem |-> 0, begin |-> 0, fini |-> 0, ok |-> TRUE, paired |-> TRUE]

InitTables ==
    /\ qos = [q \in QosIds |-> InitQosRec]
    /\ assoc = [a \in AssocIds |-> InitAssocRec(a)]
    /\ part = [p \in PartIds |->
                 [max_time |-> INFINITE, qos_ptr |-> IF p = 1 THEN 2 ELSE 0]]

Init ==
    /\ accounting_enforce \in {{"ASSOCIATIONS", "LIMITS"}, {"ASSOCIATIONS"}}
    /\ InitTables
    /\ \E f \in FirstJobs, k \in 1..Len(OtherJobs) : job = JobTable(f, k)
    /\ hist = [j \in JobIds |-> InitHist]
    /\ nops = 0
    /\ rt = NoRt
    /\ ret = NoRet

(***************************************************************************)
(* _adjust_limit_usage(type, job_ptr): the tables and the job afterwards.  *)
(* The job record changes only by the re-binding of its association.       *)
(* On JOB_FINI the function first calls priority_g_job_end, a hook of the  *)
(* priority plugin outside this file; no counter changes in this file on   *)
(* its account, and the value used_cpu_run_secs is computed for JOB_BEGIN  *)
(* only.                                                                   *)
(***************************************************************************)
AdjustedJob(type, j) ==
    IF "LIMITS" \notin accounting_enforce THEN job[j]
    ELSE _valid_job_assoc(assoc, job[j]).job

\* An adjuster without its early return.
AdjustAppliesAlways(j) == TRUE

AdjustApplies(j) ==
    /\ "LIMITS" \in accounting_enforce
    /\ _valid_job_assoc(assoc, job[j]).ok

AdjustedQos(type, j) ==
    IF ~AdjustApplies(j) THEN qos
    ELSE LET jb == AdjustedJob(type, j)
             node_cnt == jb.node_cnt
             used_cpu_run_secs ==
                 IF type = "JOB_BEGIN"
                 THEN CpuRunSecs(jb.total_cpus, jb.time_limit) ELSE 0
             job_memory == JobMemory(jb.pn_min_memory, jb.total_cpus, node_cnt)
             order == _set_qos_order(qos, part, jb)
             q1 == QosAdjust(type, jb, qos, order[1], node_cnt,
                             used_cpu_run_secs, job_memory)
         IN  QosAdjust(type, jb, q1, order[2], node_cnt,
                       used_cpu_run_secs, job_memory)

AdjustedAssoc(type, j) ==
    IF ~AdjustApplies(j) THEN assoc
    ELSE LET jb == AdjustedJob(type, j)
             node_cnt == jb.node_cnt
             used_cpu_run_secs ==
                 IF type = "JOB_BEGIN"
                 THEN CpuRunSecs(jb.total_cpus, jb.time_limit) ELSE 0
             job_memory == JobMemory(jb.pn_min_memory, jb.total_cpus, node_cnt)
         IN  AssocAdjustWalk(type, jb, assoc, jb.assoc_ptr, node_cnt,
                             used_cpu_run_secs, job_memory)

_adjust_limit_usage(type, j, newstate) ==
    /\ qos' = AdjustedQos(type, j)
    /\ assoc' = AdjustedAssoc(type, j)
    /\ job' = [job EXCEPT ![j] = [AdjustedJob(type, j) EXCEPT !.job_state = newstate]]

Step ==
    /\ nops < MaxOps
    /\ nops' = nops + 1

(***************************************************************************)
(* The lifecycle operations, with the record of the calls kept in hist.    *)
(* hist[j].ok says that the calls for job j came in the order              *)
(* ADD_SUBMIT, JOB_BEGIN, JOB_FINI, each at most once (REM_SUBMIT at most  *)
(* once, after ADD_SUBMIT).  hist[j].paired says that every JOB_FINI so    *)
(* far followed a JOB_BEGIN of the job not yet finished, and every         *)
(* REM_SUBMIT an ADD_SUBMIT not yet removed, and that the job was not      *)
(* changed from outside between a JOB_BEGIN and its JOB_FINI.  The caller  *)
(* that starts a job marks it running and sets its expected end time; the  *)
(* caller that ends it marks it complete.                                  *)
(***************************************************************************)
acct_policy_add_job_submit(j) ==
    /\ Step
    /\ _adjust_limit_usage("ADD_SUBMIT", j, job[j].job_state)
    /\ hist' = [hist EXCEPT ![j].add = @ + 1,
                            ![j].ok = @ /\ hist[j].add = 0 /\ hist[j].begin = 0
                                        /\ hist[j].fini = 0 /\ hist[j].rem = 0]
    /\ rt' = NoRt
    /\ UNCHANGED <<accounting_enforce, part, ret>>

acct_policy_remove_job_submit(j) ==
    /\ Step
    /\ _adjust_limit_usage("REM_SUBMIT", j, job[j].job_state)
    /\ hist' = [hist EXCEPT ![j].rem = @ + 1,
                            ![j].ok = @ /\ hist[j].add = 1 /\ hist[j].rem = 0
                                        /\ hist[j].begin = hist[j].fini,
                            ![j].paired = @ /\ hist[j].add > hist[j].rem]
    /\ rt' = NoRt
    /\ UNCHANGED <<accounting_enforce, part, ret>>

acct_policy_job_begin(j) ==
    /\ Step
    /\ qos' = AdjustedQos("JOB_BEGIN", j)
    /\ assoc' = AdjustedAssoc("JOB_BEGIN", j)
    /\ job' = [job EXCEPT ![j] = [AdjustedJob("JOB_BEGIN", j) EXCEPT
                                    !.job_state = "RUNNING", !.end_time_exp = 0]]
    /\ hist' = [hist EXCEPT ![j].begin = @ + 1,
                            ![j].ok = @ /\ hist[j].add = 1 /\ hist[j].rem = 0
                                        /\ hist[j].begin = 0 /\ hist[j].fini = 0]
    /\ rt' = NoRt
    /\ UNCHANGED <<accounting_enforce, part, ret>>

\* acct_policy_job_fini: nothing happens once end_time_exp is NO_VAL.
acct_policy_job_fini(j) ==
    /\ Step
    /\ IF job[j].end_time_exp # NO_VAL
       THEN _adjust_limit_usage("JOB_FINI", j, "COMPLETE")
       ELSE /\ job' = [job EXCEPT ![j].job_state = "COMPLETE"]
            /\ UNCHANGED <<qos, assoc>>
    /\ hist' = [hist EXCEPT ![j].fini = @ + 1,
                            ![j].ok = @ /\ hist[j].begin = 1 /\ hist[j].fini = 0,
                            ![j].paired = @ /\ hist[j].begin > hist[j].fini]
    /\ rt' = NoRt
    /\ UNCHANGED <<accounting_enforce, part, ret>>

\* The priority plugin marks a job it has finished accounting for.  Done
\* while a JOB_BEGIN of the job awaits its JOB_FINI, it changes the job
\* between the two calls of the pair.
MarkEndTimeExp(j) ==
    /\ Step
    /\ hist[j].fini >= 1
    /\ job[j].end_time_exp # NO_VAL
    /\ job' = [job EXCEPT ![j].end_time_exp = NO_VAL]
    /\ hist' = [hist EXCEPT ![j].paired = @ /\ hist[j].begin = hist[j].fini]
    /\ rt' = NoRt
    /\ UNCHANGED <<accounting_enforce, qos, assoc, part, ret>>

(***************************************************************************)
(* acct_policy_alter_job(job_ptr, new_time_limit) and _qos_alter_job.      *)
(***************************************************************************)
\* x -= used_cpu_run_secs; x += new_used_cpu_run_secs;  (uint64_t)
AlterNoRemove(x, used, new) == U64(x + new)

AlterCpuRunSecs(x, used, new) == U64(U64(x - used) + new)

_qos_alter_job(qtab, qp, used, new) ==
    IF qp = 0 THEN qtab
    ELSE [qtab EXCEPT ![qp].usage.grp_used_cpu_run_secs =
                          AlterCpuRunSecs(@, used, new)]

RECURSIVE AssocAlterWalk(_, _, _, _)
AssocAlterWalk(atab, ap, used, new) ==
    IF ap = 0 THEN atab
    ELSE AssocAlterWalk(
            [atab EXCEPT ![ap].usage.grp_used_cpu_run_secs =
                            AlterCpuRunSecs(@, used, new)],
            atab[ap].parent_assoc_ptr, used, new)

AlterReturnsEarly(j, new_time_limit) ==
    \/ job[j].job_state # "RUNNING"
    \/ job[j].time_limit = new_time_limit

AlterApplies(j, new_time_limit) ==
    /\ ~AlterReturnsEarly(j, new_time_limit)
    /\ AdjustApplies(j)

AlteredJob(j, new_time_limit) ==
    IF AlterReturnsEarly(j, new_time_limit) THEN job[j]
    ELSE AdjustedJob("ALTER", j)

AlteredQos(j, new_time_limit) ==
    IF ~AlterApplies(j, new_time_limit) THEN qos
    ELSE LET jb == AlteredJob(j, new_time_limit)
             used == CpuRunSecs(jb.total_cpus, jb.time_limit)
             new == CpuRunSecs(jb.total_cpus, new_time_limit)
             order == _set_qos_order(qos, part, jb)
         IN  _qos_alter_job(_qos_alter_job(qos, order[1], used, new),
                            order[2], used, new)

AlteredAssoc(j, new_time_limit) ==
    IF ~AlterApplies(j, new_time_limit) THEN assoc
    ELSE LET jb == AlteredJob(j, new_time_limit)
             used == CpuRunSecs(jb.total_cpus, jb.time_limit)
             new == CpuRunSecs(jb.total_cpus, new_time_limit)
         IN  AssocAlterWalk(assoc, jb.assoc_ptr, used, new)

CpuRunSecsSnapshot ==
    [q |-> [i \in QosIds |-> qos[i].usage.grp_used_cpu_run_secs],
     a |-> [i \in AssocIds |-> assoc[i].usage.grp_used_cpu_run_secs]]

\* The caller (the job update path) calls acct_policy_alter_job and then
\* records the new time limit in the job.  rt remembers the counters and
\* the time limit before the first of two consecutive calls for a job, the
\* second of which goes back to that time limit.
acct_policy_alter_job(j, new_time_limit) ==
    /\ Step
    /\ job[j].job_state # "COMPLETE"
    /\ qos' = AlteredQos(j, new_time_limit)
    /\ assoc' = AlteredAssoc(j, new_time_limit)
    /\ job' = [job EXCEPT ![j] = [AlteredJob(j, new_time_limit)
                                    EXCEPT !.time_limit = new_time_limit]]
    /\ rt' = IF rt.stage = 1 /\ rt.job = j /\ rt.t0 = new_time_limit
             THEN [rt EXCEPT !.stage = 2]
             ELSE [stage |-> 1, job |-> j, t0 |-> job[j].time_limit,
                   t1 |-> new_time_limit,
                   running |-> job[j].job_state = "RUNNING",
                   snap |-> CpuRunSecsSnapshot]
    /\ UNCHANGED <<accounting_enforce, part, hist, ret>>

Next ==
    \E j \in JobIds :
        \/ acct_policy_add_job_submit(j)
        \/ acct_policy_remove_job_submit(j)
        \/ acct_policy_job_begin(j)
        \/ acct_policy_job_fini(j)
        \/ MarkEndTimeExp(j)
        \/ \E t \in TimeVals : acct_policy_alter_job(j, t)

Spec == Init /\ [][Next]_vars

(***************************************************************************)
(* Vocabulary of the lifecycle claims.                                     *)
(***************************************************************************)
LimitsEnforced == "LIMITS" \in accounting_enforce

Resolves(j) == _valid_job_assoc(assoc, job[j]).ok

\* The records a job's lifecycle deltas go to.
JobQosSet(j) ==
    LET order == _set_qos_order(qos, part, job[j])
    IN  {order[1], order[2]} \ {0}

JobAssocSet(j) ==
    LET chain == AssocChain(assoc, _valid_job_assoc(assoc, job[j]).job.assoc_ptr)
    IN  {chain[i] : i \in 1..Len(chain)}

Begun(j) == hist[j].begin >= 1

Running(j) == hist[j].begin >= 1 /\ hist[j].fini = 0

AllOrdered == \A j \in JobIds : hist[j].ok

Balanced ==
    \A j \in JobIds :
        /\ hist[j].paired
        /\ hist[j].begin = hist[j].fini
        /\ hist[j].add = hist[j].rem

UserEntry(q, uid) ==
    LET list == qos[q].usage.user_limit_list
        idx == _get_used_limits_for_user(list, uid)
    IN  IF idx = 0 THEN NewUsedLimits(uid) ELSE list[idx]

Counters32OfQos(q) ==
    LET u == qos[q].usage
    IN  {u.grp_used_cpus, u.grp_used_mem, u.grp_used_nodes, u.grp_used_jobs,
         u.grp_used_submit_jobs}
        \cup UNION {{e.cpus, e.jobs, e.nodes, e.submit_jobs} :
                      e \in {u.user_limit_list[i] :
                               i \in 1..Len(u.user_limit_list)}}

Counters32OfAssoc(a) ==
    LET u == assoc[a].usage
    IN  {u.used_jobs, u.used_submit_jobs, u.grp_used_cpus, u.grp_used_mem,
         u.grp_used_nodes}

RECURSIVE SumCharge(_)
SumCharge(S) ==
    IF S = {} THEN 0
    ELSE LET j == CHOOSE x \in S : TRUE
         IN  job[j].total_cpus * job[j].time_limit * 60
               + SumCharge(S \ {j})

\* The three scoped submit counters of job j's records in the tables given.
SubmitJobsOfUser(qtab, q, uid) ==
    LET list == qtab[q].usage.user_limit_list
        idx == _get_used_limits_for_user(list, uid)
    IN  IF idx = 0 THEN 0 ELSE list[idx].submit_jobs

Saturated(c) == IF c = 0 THEN 0 ELSE c - 1

\* A step that is REM_SUBMIT for job j, applied.
RemSubmitStep(j) ==
    /\ hist'[j].rem = hist[j].rem + 1
    /\ LimitsEnforced /\ Resolves(j)

\* A step that is ADD_SUBMIT for job j, applied, coming right after a
\* REM_SUBMIT for j that was the first call of all.
AddAfterRemFromZero(j) ==
    /\ hist'[j].add = hist[j].add + 1
    /\ nops = 1 /\ hist[j].rem = 1
    /\ LimitsEnforced /\ Resolves(j)

\* C13: REM_SUBMIT is saturating.  A REM_SUBMIT leaves each submit counter
\* of the job's records (grp_used_submit_jobs of its QOS, its user's
\* submit_jobs there, used_submit_jobs of every association of its chain)
\* one lower, or at 0 when it was 0, whatever the other counters held; and
\* an ADD_SUBMIT right after a REM_SUBMIT from the all-zero state leaves all
\* of them at exactly 1.
C13_RemSubmitSaturates ==
    [][\A j \in JobIds :
          /\ RemSubmitStep(j) =>
                /\ \A q \in JobQosSet(j) :
                      /\ qos'[q].usage.grp_used_submit_jobs =
                            Saturated(qos[q].usage.grp_used_submit_jobs)
                      /\ SubmitJobsOfUser(qos', q, job[j].user_id) =
                            Saturated(SubmitJobsOfUser(qos, q, job[j].user_id))
                /\ \A a \in JobAssocSet(j) :
                      assoc'[a].usage.used_submit_jobs =
                         Saturated(assoc[a].usage.used_submit_jobs)
          /\ AddAfterRemFromZero(j) =>
                /\ \A q \in JobQosSet(j) :
                      /\ qos'[q].usage.grp_used_submit_jobs = 1
                      /\ SubmitJobsOfUser(qos', q, job[j].user_id) = 1
                /\ \A a \in JobAssocSet(j) :
                      assoc'[a].usage.used_submit_jobs = 1]_vars

\* REM_SUBMIT then ADD_SUBMIT of a job with a QOS and an association were
\* the first two calls, and the job's counters stand at 1.
C13_Witness ==
    \E j \in JobIds :
        /\ nops = 2 /\ hist[j].rem = 1 /\ hist[j].add = 1 /\ ~hist[j].paired
        /\ LimitsEnforced /\ Resolves(j)
        /\ Cardinality(JobQosSet(j)) = 2
        /\ \A q \in JobQosSet(j) :
              /\ qos[q].usage.grp_used_submit_jobs = 1
              /\ SubmitJobsOfUser(qos, q, job[j].user_id) = 1
        /\ \A a \in JobAssocSet(j) : assoc[a].usage.used_submit_jobs = 1

\* A REM_SUBMIT met one of the job's counters at 0 and another above 0.
C13_WitnessMixed ==
    \E j \in JobIds :
        /\ hist[j].rem = 1 /\ hist[j].add = 0
        /\ LimitsEnforced /\ Resolves(j)
        /\ \E a \in JobAssocSet(j) : assoc[a].usage.used_submit_jobs # 0

C3_JobCountsMatchRunning ==
    (LimitsEnforced /\ AllOrdered) =>
        /\ \A a \in AssocIds :
              assoc[a].usage.used_jobs =
                 Cardinality({j \in JobIds :
                                Running(j) /\ Resolves(j) /\ a \in JobAssocSet(j)})
        /\ \A q \in QosIds :
              /\ qos[q].usage.grp_used_jobs =
                    Cardinality({j \in JobIds :
                                   Running(j) /\ Resolves(j) /\ q \in JobQosSet(j)})
              /\ \A uid \in Users :
                    UserEntry(q, uid).jobs =
                       Cardinality({j \in JobIds :
                                      /\ Running(j) /\ Resolves(j)
                                      /\ q \in JobQosSet(j)
                                      /\ job[j].user_id = uid})

\* Two jobs run at once and share a record, and a job has finished.
C3_Witness ==
    /\ LimitsEnforced /\ AllOrdered
    /\ \E j, k \in JobIds :
          /\ j # k /\ Running(j) /\ Running(k) /\ Resolves(j) /\ Resolves(k)
          /\ JobQosSet(j) \cap JobQosSet(k) # {}

C5_AlterRoundTrip ==
    rt.stage = 2 => CpuRunSecsSnapshot = rt.snap

\* The two calls happened on a running job with enforced limits and two
\* different time limits, on counters that were not zero.
C5_Witness ==
    /\ rt.stage = 2
    /\ rt.running /\ rt.t0 # rt.t1
    /\ LimitsEnforced /\ Resolves(rt.job)
    /\ JobQosSet(rt.job) # {}
    /\ \A q \in JobQosSet(rt.job) : rt.snap.q[q] > 0

(***************************************************************************)
(* The QOS resolver on its own.  SpecQos starts from every shape of a job: *)
(* with or without a QOS, with or without a partition, the partition with  *)
(* or without a QOS (the job's own or another), each QOS with or without   *)
(* the PART_QOS flag, and calls the resolver on a job, time after time.    *)
(***************************************************************************)
InitQos ==
    /\ accounting_enforce = {"ASSOCIATIONS", "LIMITS"}
    /\ assoc = [a \in AssocIds |-> InitAssocRec(a)]
    /\ \E fl \in [QosIds -> {{}, {"PART_QOS"}}] :
          qos = [q \in QosIds |-> [InitQosRec EXCEPT !.flags = fl[q]]]
    /\ \E pq \in [PartIds -> {0} \cup QosIds] :
          part = [p \in PartIds |-> [max_time |-> INFINITE, qos_ptr |-> pq[p]]]
    /\ \E jq \in {0} \cup QosIds, jp \in {0} \cup PartIds :
          job = [j \in JobIds |->
                   MkJob(1, 1, "acct", IF j = 1 THEN jq ELSE (jq + j) % 3,
                         IF j = 1 THEN jp ELSE (jp + j) % 3, 1, 1, 1, 0)]
    /\ hist = [j \in JobIds |-> InitHist]
    /\ nops = 0
    /\ rt = NoRt
    /\ ret = NoRet

\* A caller resolving the pair of job j; rt remembers the pair the previous
\* call returned when that call was for the same job.
CallSetQosOrder(j) ==
    LET order == _set_qos_order(qos, part, job[j])
    IN  /\ ret' = [op |-> "set_qos_order", job |-> j,
                   qos_ptr_1 |-> order[1], qos_ptr_2 |-> order[2]]
        /\ rt' = IF ret.op = "set_qos_order" /\ ret.job = j
                 THEN [stage |-> 2, prev |-> <<ret.qos_ptr_1, ret.qos_ptr_2>>]
                 ELSE [stage |-> 1]
        /\ UNCHANGED <<accounting_enforce, qos, assoc, part, job, hist, nops>>

NextQos == \E j \in JobIds : CallSetQosOrder(j)

SpecQos == InitQos /\ [][NextQos]_vars

\* C10: the resolver's pair is decided by the job's QOS, the QOS of its
\* partition and the PART_QOS flag of the job's QOS alone: none of the two
\* gives (none, none); one of them gives (it, none); both give (job QOS,
\* partition QOS) when the job's QOS has PART_QOS and (partition QOS, job
\* QOS) when not, the secondary dropped when they are the same object.
\* There is no secondary without a primary, the two are never the same
\* object, and a second call for the same job returns the same pair.
C10_ResolverCases ==
    ret.op = "set_qos_order" =>
        LET jq == job[ret.job].qos_ptr
            pq == PartQos(part, job[ret.job])
            pair == <<ret.qos_ptr_1, ret.qos_ptr_2>>
        IN  /\ (jq = 0 /\ pq = 0) => pair = <<0, 0>>
            /\ (jq # 0 /\ pq = 0) => pair = <<jq, 0>>
            /\ (jq = 0 /\ pq # 0) => pair = <<pq, 0>>
            /\ (jq # 0 /\ pq # 0 /\ jq = pq) => pair = <<jq, 0>>
            /\ (jq # 0 /\ pq # 0 /\ jq # pq /\ "PART_QOS" \in qos[jq].flags)
                  => pair = <<jq, pq>>
            /\ (jq # 0 /\ pq # 0 /\ jq # pq /\ "PART_QOS" \notin qos[jq].flags)
                  => pair = <<pq, jq>>
            /\ ret.qos_ptr_2 # 0 => ret.qos_ptr_1 # 0
            /\ ret.qos_ptr_1 # 0 => ret.qos_ptr_1 # ret.qos_ptr_2
            /\ rt.stage = 2 => pair = rt.prev

\* The resolver was called twice for a job whose QOS is also the QOS of its
\* partition.
C10_Witness ==
    /\ ret.op = "set_qos_order"
    /\ rt.stage = 2
    /\ job[ret.job].qos_ptr # 0
    /\ job[ret.job].qos_ptr = PartQos(part, job[ret.job])

(***************************************************************************)
(* acct_policy_get_max_nodes(job_ptr, &wait_reason): the node cap handed   *)
(* to the selector and the reason that goes with it.  wait_reason is the   *)
(* caller's value, kept when no limit applies.                             *)
(***************************************************************************)
\* qos_rec: a copy of the primary QOS whose three node limits, where they
\* are INFINITE, are taken from the secondary.
\* The merge taken as a minimum of the two records, field by field.
MaxNodesQosRecMin(qtab, order) ==
    LET l1 == qtab[order[1]].lim
        low(n) == IF order[2] # 0
                  THEN MIN(l1[n], qtab[order[2]].lim[n]) ELSE l1[n]
    IN  [max_nodes_pj |-> low("max_nodes_pj"),
         max_nodes_pu |-> low("max_nodes_pu"),
         grp_nodes |-> low("grp_nodes")]

\* The copy of the primary record alone, nothing taken from the secondary.
MaxNodesQosRecPrimaryOnly(qtab, order) ==
    [max_nodes_pj |-> qtab[order[1]].lim.max_nodes_pj,
     max_nodes_pu |-> qtab[order[1]].lim.max_nodes_pu,
     grp_nodes |-> qtab[order[1]].lim.grp_nodes]

MaxNodesQosRec(qtab, order) ==
    LET l1 == qtab[order[1]].lim
        fill(n) == IF l1[n] = INFINITE /\ order[2] # 0
                   THEN qtab[order[2]].lim[n] ELSE l1[n]
    IN  [max_nodes_pj |-> fill("max_nodes_pj"),
         max_nodes_pu |-> fill("max_nodes_pu"),
         grp_nodes |-> fill("grp_nodes")]

\* The per-job / per-user part: [limit, reason].
MaxNodesQosPerJob(qrec, wait_reason) ==
    IF qrec.max_nodes_pj < qrec.max_nodes_pu
    THEN [limit |-> qrec.max_nodes_pj, reason |-> "WAIT_QOS_MAX_NODE_PER_JOB"]
    ELSE IF qrec.max_nodes_pu # INFINITE
         THEN [limit |-> qrec.max_nodes_pu,
               reason |-> "WAIT_QOS_MAX_NODE_PER_USER"]
         ELSE [limit |-> INFINITE, reason |-> wait_reason]

MaxNodesQosGrp(qrec, st) ==
    IF qrec.grp_nodes < st.limit
    THEN [limit |-> qrec.grp_nodes, reason |-> "WAIT_QOS_GRP_NODES"]
    ELSE st

\* One turn of the loop over the associations: st is [limit, reason,
\* grp_set].
MaxNodesAssocOne(a, parent, qos_grp_unset, qos_max_p_limit, st) ==
    LET g == IF /\ qos_grp_unset
                /\ a.lim.grp_nodes # INFINITE
                /\ a.lim.grp_nodes < st.limit
             THEN [limit |-> a.lim.grp_nodes, reason |-> "WAIT_ASSOC_GRP_NODES",
                   grp_set |-> TRUE]
             ELSE st
    IN  IF /\ ~parent
           /\ qos_max_p_limit = INFINITE
           /\ a.lim.max_nodes_pj # INFINITE
           /\ a.lim.max_nodes_pj < g.limit
        THEN [g EXCEPT !.limit = a.lim.max_nodes_pj,
                       !.reason = "WAIT_ASSOC_MAX_NODE_PER_JOB"]
        ELSE g

MaxNodesWalkOwnOnly(atab, ap, parent, qos_grp_unset, qos_max_p_limit, st) ==
    IF ap = 0 THEN st
    ELSE MaxNodesAssocOne(atab[ap], parent, qos_grp_unset, qos_max_p_limit, st)

RECURSIVE MaxNodesWalk(_, _, _, _, _, _)
MaxNodesWalk(atab, ap, parent, qos_grp_unset, qos_max_p_limit, st) ==
    IF ap = 0 THEN st
    ELSE LET nxt == MaxNodesAssocOne(atab[ap], parent, qos_grp_unset,
                                     qos_max_p_limit, st)
         IN  IF nxt.grp_set THEN nxt
             ELSE MaxNodesWalk(atab, atab[ap].parent_assoc_ptr, TRUE,
                               qos_grp_unset, qos_max_p_limit, nxt)

GetMaxNodes(enforce, qtab, atab, parts, jb, wait_reason) ==
    IF "LIMITS" \notin enforce
    THEN [limit |-> INFINITE, reason |-> wait_reason, qos_rec |-> << >>]
    ELSE LET order == _set_qos_order(qtab, parts, jb)
             none == [limit |-> INFINITE, reason |-> wait_reason]
             qrec == IF order[1] # 0 THEN MaxNodesQosRec(qtab, order)
                     ELSE << >>
             perjob == IF order[1] # 0
                       THEN MaxNodesQosPerJob(qrec, wait_reason) ELSE none
             afterq == IF order[1] # 0
                       THEN MaxNodesQosGrp(qrec, perjob) ELSE none
             walked == MaxNodesWalk(
                          atab, jb.assoc_ptr, FALSE,
                          order[1] = 0 \/ qrec.grp_nodes = INFINITE,
                          perjob.limit,
                          [limit |-> afterq.limit, reason |-> afterq.reason,
                           grp_set |-> FALSE])
         IN  [limit |-> walked.limit, reason |-> walked.reason,
              qos_rec |-> qrec]

(***************************************************************************)
(* SpecNodes: the node limits of both QOS and of the three associations of *)
(* job 1's chain take every combination of a finite value and INFINITE;    *)
(* the job has a QOS of its own or not, its partition a QOS or not, its    *)
(* QOS the PART_QOS flag or not.  The only operation is the query.         *)
(***************************************************************************)
NodeQosChoices ==
    [max_nodes_pj : {8, INFINITE}, max_nodes_pu : {5, INFINITE},
     grp_nodes : {3, 6, INFINITE}]

NodePartQosChoices ==
    [max_nodes_pj : {4, INFINITE}, max_nodes_pu : {7, INFINITE},
     grp_nodes : {2, INFINITE}]

WithNodeLimits(rec, c) ==
    [rec EXCEPT !.lim.max_nodes_pj = c.max_nodes_pj,
                !.lim.max_nodes_pu = c.max_nodes_pu,
                !.lim.grp_nodes = c.grp_nodes]

InitNodes ==
    /\ accounting_enforce \in {{"ASSOCIATIONS", "LIMITS"}, {"ASSOCIATIONS"}}
    /\ \E c1 \in NodeQosChoices, c2 \in NodePartQosChoices,
          fl \in {{}, {"PART_QOS"}} :
          qos = [q \in QosIds |->
                   IF q = 1
                   THEN WithNodeLimits([InitQosRec EXCEPT !.flags = fl], c1)
                   ELSE WithNodeLimits(InitQosRec, c2)]
    /\ \E own_pj \in {5, INFINITE}, own_grp \in {4, INFINITE},
          acct_grp \in {3, INFINITE}, root_grp \in {1, INFINITE} :
          assoc = [a \in AssocIds |->
                     [InitAssocRec(a) EXCEPT
                        !.lim.max_nodes_pj =
                            IF a = 1 THEN own_pj
                            ELSE IF a = AcctAssoc THEN 1 ELSE INFINITE,
                        !.lim.grp_nodes =
                            IF a = 1 THEN own_grp
                            ELSE IF a = AcctAssoc THEN acct_grp
                            ELSE IF a = RootAssoc THEN root_grp
                            ELSE INFINITE]]
    /\ \E pq \in {0, 2} :
          part = [p \in PartIds |-> [max_time |-> INFINITE, qos_ptr |-> pq]]
    /\ \E jq \in {0, 1} :
          job = [j \in JobIds |->
                   MkJob(1, IF j = 1 THEN 1 ELSE 0, "acct",
                         IF j = 1 THEN jq ELSE 1, 1, 1, 1, 1, 0)]
    /\ hist = [j \in JobIds |-> InitHist]
    /\ nops = 0
    /\ rt = NoRt
    /\ ret = NoRet

acct_policy_get_max_nodes(j) ==
    LET r == GetMaxNodes(accounting_enforce, qos, assoc, part, job[j],
                         job[j].state_reason)
    IN  /\ ret' = [op |-> "get_max_nodes", job |-> j,
                   max_nodes_limit |-> r.limit, wait_reason |-> r.reason,
                   qos_rec |-> r.qos_rec]
        /\ UNCHANGED <<accounting_enforce, qos, assoc, part, job, hist, nops,
                       rt>>

NextNodes == \E j \in JobIds : acct_policy_get_max_nodes(j)

SpecNodes == InitNodes /\ [][NextNodes]_vars

\* The caps of the claims about the node query, for the job of the last
\* query.
NodeCapsOfQos(q) ==
    {qos[q].lim.max_nodes_pj, qos[q].lim.max_nodes_pu, qos[q].lim.grp_nodes}
        \ {INFINITE}

\* A node limit of the pair: the primary's value if it is finite, else the
\* secondary's (INFINITE when there is no QOS).
EffectiveNodeCap(j, n) ==
    LET order == _set_qos_order(qos, part, job[j])
    IN  IF order[1] = 0 THEN INFINITE
        ELSE IF qos[order[1]].lim[n] # INFINITE \/ order[2] = 0
             THEN qos[order[1]].lim[n]
             ELSE qos[order[2]].lim[n]

\* The associations of the job's chain with a finite grp_nodes, nearest
\* first.
FiniteGrpNodes(j) ==
    SelectSeq(AssocChain(assoc, job[j].assoc_ptr),
              LAMBDA a : assoc[a].lim.grp_nodes # INFINITE)

\* C7 as stated: with limits enforced the result is <= every finite node
\* cap of the primary and the secondary QOS, max_nodes_pj of the job's own
\* association and grp_nodes of every association of the chain.
C7_MaxNodesWithinEveryCap ==
    (ret.op = "get_max_nodes" /\ LimitsEnforced) =>
        LET j == ret.job
            r == ret.max_nodes_limit
        IN  /\ \A q \in JobQosSet(j) : \A cap \in NodeCapsOfQos(q) : r <= cap
            /\ (job[j].assoc_ptr # 0
                /\ assoc[job[j].assoc_ptr].lim.max_nodes_pj # INFINITE)
                  => r <= assoc[job[j].assoc_ptr].lim.max_nodes_pj
            /\ \A a \in JobAssocSet(j) :
                  assoc[a].lim.grp_nodes # INFINITE
                     => r <= assoc[a].lim.grp_nodes

\* C7 amended: with limits enforced the result is <= every finite node
\* limit of the QOS pair, a limit of the pair being the primary's value
\* when that is finite and else the secondary's; <= max_nodes_pj of the
\* job's own association when the pair has neither a finite max_nodes_pj
\* nor a finite max_nodes_pu; and, when the pair has no finite grp_nodes,
\* <= grp_nodes of the nearest association of the chain that has a finite
\* one.
C7_MaxNodesWithinEffectiveCaps ==
    (ret.op = "get_max_nodes" /\ LimitsEnforced) =>
        LET j == ret.job
            r == ret.max_nodes_limit
            pj == EffectiveNodeCap(j, "max_nodes_pj")
            pu == EffectiveNodeCap(j, "max_nodes_pu")
            grp == EffectiveNodeCap(j, "grp_nodes")
        IN  /\ \A cap \in {pj, pu, grp} \ {INFINITE} : r <= cap
            /\ (/\ pj = INFINITE /\ pu = INFINITE
                /\ job[j].assoc_ptr # 0
                /\ assoc[job[j].assoc_ptr].lim.max_nodes_pj # INFINITE)
                  => r <= assoc[job[j].assoc_ptr].lim.max_nodes_pj
            /\ (grp = INFINITE /\ FiniteGrpNodes(j) # << >>)
                  => r <= assoc[FiniteGrpNodes(j)[1]].lim.grp_nodes

\* The query ran for a job with both QOS, the primary leaving a node limit
\* to the secondary, and an association limit decided the result.
C7_Witness ==
    /\ ret.op = "get_max_nodes" /\ LimitsEnforced
    /\ Cardinality(JobQosSet(ret.job)) = 2
    /\ EffectiveNodeCap(ret.job, "max_nodes_pj") = 4
    /\ EffectiveNodeCap(ret.job, "grp_nodes") = INFINITE
    /\ ret.wait_reason = "WAIT_ASSOC_GRP_NODES"
    /\ ret.max_nodes_limit = 3

\* The smallest of the node limits of the QOS pair, each taken from the
\* primary when the primary sets it.
MinEffectiveNodeCap(j) ==
    MIN(EffectiveNodeCap(j, "max_nodes_pj"),
        MIN(EffectiveNodeCap(j, "max_nodes_pu"),
            EffectiveNodeCap(j, "grp_nodes")))

NoAssocNodeLimit(j) ==
    /\ \A a \in JobAssocSet(j) : assoc[a].lim.grp_nodes = INFINITE
    /\ job[j].assoc_ptr # 0
          => assoc[job[j].assoc_ptr].lim.max_nodes_pj = INFINITE

\* Partition QOS with max_nodes_pj 4, job QOS with max_nodes_pj 8, no other
\* node limit anywhere.
ScenarioS6(j) ==
    /\ job[j].qos_ptr = 1 /\ PartQos(part, job[j]) = 2
    /\ qos[1].lim.max_nodes_pj = 8 /\ qos[2].lim.max_nodes_pj = 4
    /\ \A q \in QosIds : /\ qos[q].lim.max_nodes_pu = INFINITE
                         /\ qos[q].lim.grp_nodes = INFINITE
    /\ NoAssocNodeLimit(j)

\* C11: in get_max_nodes the primary QOS wins.  With max_nodes_pj 4 on the
\* partition QOS and 8 on the job QOS (and no other node limit) the result
\* is 8 when the job QOS carries PART_QOS and 4 otherwise; in general a
\* finite max_nodes_pj, max_nodes_pu or grp_nodes of the primary is the
\* value the query works with, whatever the secondary holds for that field,
\* the result is never above the smallest of the pair's limits so taken,
\* and it is exactly that when no association sets a node limit.
C11_PrimaryQosWins ==
    (ret.op = "get_max_nodes" /\ LimitsEnforced) =>
        LET j == ret.job
            order == _set_qos_order(qos, part, job[j])
        IN  /\ ScenarioS6(j) =>
                  ret.max_nodes_limit =
                     IF "PART_QOS" \in qos[1].flags THEN 8 ELSE 4
            /\ order[1] # 0 =>
                  \A n \in {"max_nodes_pj", "max_nodes_pu", "grp_nodes"} :
                     qos[order[1]].lim[n] # INFINITE
                        => ret.qos_rec[n] = qos[order[1]].lim[n]
            /\ ret.max_nodes_limit <= MinEffectiveNodeCap(j)
            /\ NoAssocNodeLimit(j)
                  => ret.max_nodes_limit = MinEffectiveNodeCap(j)

\* The job QOS was the primary with max_nodes_pj 8 over the partition
\* QOS's 4, and the query answered 8.
C11_Witness ==
    /\ ret.op = "get_max_nodes" /\ LimitsEnforced
    /\ ScenarioS6(ret.job) /\ "PART_QOS" \in qos[1].flags
    /\ ret.max_nodes_limit = 8

\* The job of the last query has a primary and a secondary QOS.
HasQosPair(j) == Cardinality(JobQosSet(j)) = 2

\* C12 as stated: the merged record holds, for each of max_nodes_pj,
\* max_nodes_pu and grp_nodes, the minimum of the primary's and the
\* secondary's value.
C12_MergeIsFieldwiseMin ==
    (ret.op = "get_max_nodes" /\ LimitsEnforced /\ HasQosPair(ret.job)) =>
        LET order == _set_qos_order(qos, part, job[ret.job])
        IN  \A n \in {"max_nodes_pj", "max_nodes_pu", "grp_nodes"} :
               ret.qos_rec[n] = MIN(qos[order[1]].lim[n], qos[order[2]].lim[n])

\* C12 amended: the merged record holds, for each of the three fields, the
\* primary's value when that is not INFINITE and the secondary's value
\* otherwise.
C12_MergeFillsFromSecondary ==
    (ret.op = "get_max_nodes" /\ LimitsEnforced /\ HasQosPair(ret.job)) =>
        LET order == _set_qos_order(qos, part, job[ret.job])
        IN  \A n \in {"max_nodes_pj", "max_nodes_pu", "grp_nodes"} :
               ret.qos_rec[n] =
                  IF qos[order[1]].lim[n] # INFINITE
                  THEN qos[order[1]].lim[n] ELSE qos[order[2]].lim[n]

\* The merge kept a field of the primary that is above the secondary's
\* and took another field from the secondary.
C12_Witness ==
    /\ ret.op = "get_max_nodes" /\ LimitsEnforced /\ HasQosPair(ret.job)
    /\ LET order == _set_qos_order(qos, part, job[ret.job])
       IN  /\ qos[order[2]].lim.max_nodes_pj < qos[order[1]].lim.max_nodes_pj
           /\ ret.qos_rec.max_nodes_pj = qos[order[1]].lim.max_nodes_pj
           /\ qos[order[1]].lim.grp_nodes = INFINITE
           /\ ret.qos_rec.grp_nodes = qos[order[2]].lim.grp_nodes
           /\ ret.qos_rec.grp_nodes # INFINITE

\* The reasons of the QOS limits only.
LimitReasonsQosOnly ==
    {"WAIT_QOS_GRP_CPU", "WAIT_QOS_GRP_CPU_MIN", "WAIT_QOS_GRP_CPU_RUN_MIN",
     "WAIT_QOS_GRP_JOB", "WAIT_QOS_GRP_MEMORY", "WAIT_QOS_GRP_NODES",
     "WAIT_QOS_GRP_SUB_JOB", "WAIT_QOS_GRP_WALL",
     "WAIT_QOS_MAX_CPU_MINS_PER_JOB", "WAIT_QOS_MAX_CPUS_PER_JOB",
     "WAIT_QOS_MAX_CPU_PER_USER", "WAIT_QOS_MAX_JOB_PER_USER",
     "WAIT_QOS_MAX_NODE_PER_JOB", "WAIT_QOS_MAX_NODE_PER_USER",
     "WAIT_QOS_MAX_SUB_JOB", "WAIT_QOS_MAX_WALL_PER_JOB",
     "WAIT_QOS_MIN_CPUS", "WAIT_QOS_JOB_LIMIT", "WAIT_QOS_TIME_LIMIT"}

(***************************************************************************)
(* acct_policy_job_runnable_state: FALSE when the job's state_reason is    *)
(* one of the association or QOS limit reasons.                            *)
(***************************************************************************)
LimitReasons ==
    {"WAIT_QOS_GRP_CPU", "WAIT_QOS_GRP_CPU_MIN", "WAIT_QOS_GRP_CPU_RUN_MIN",
     "WAIT_QOS_GRP_JOB", "WAIT_QOS_GRP_MEMORY", "WAIT_QOS_GRP_NODES",
     "WAIT_QOS_GRP_SUB_JOB", "WAIT_QOS_GRP_WALL",
     "WAIT_QOS_MAX_CPU_MINS_PER_JOB", "WAIT_QOS_MAX_CPUS_PER_JOB",
     "WAIT_QOS_MAX_CPU_PER_USER", "WAIT_QOS_MAX_JOB_PER_USER",
     "WAIT_QOS_MAX_NODE_PER_JOB", "WAIT_QOS_MAX_NODE_PER_USER",
     "WAIT_QOS_MAX_SUB_JOB", "WAIT_QOS_MAX_WALL_PER_JOB",
     "WAIT_QOS_MIN_CPUS",
     "WAIT_ASSOC_GRP_CPU", "WAIT_ASSOC_GRP_CPU_MIN",
     "WAIT_ASSOC_GRP_CPU_RUN_MIN", "WAIT_ASSOC_GRP_JOB",
     "WAIT_ASSOC_GRP_MEMORY", "WAIT_ASSOC_GRP_NODES",
     "WAIT_ASSOC_GRP_SUB_JOB", "WAIT_ASSOC_GRP_WALL", "WAIT_ASSOC_MAX_JOBS",
     "WAIT_ASSOC_MAX_CPU_MINS_PER_JOB", "WAIT_ASSOC_MAX_CPUS_PER_JOB",
     "WAIT_ASSOC_MAX_NODE_PER_JOB", "WAIT_ASSOC_MAX_WALL_PER_JOB",
     "WAIT_ASSOC_MAX_SUB_JOB", "WAIT_ASSOC_JOB_LIMIT",
     "WAIT_ASSOC_RESOURCE_LIMIT", "WAIT_ASSOC_TIME_LIMIT",
     "WAIT_QOS_JOB_LIMIT", "WAIT_QOS_TIME_LIMIT"}

acct_policy_job_runnable_state(jb) == jb.state_reason \notin LimitReasons

\* (uint64_t)(usage_raw / 60.0) and grp_used_cpu_run_secs / 60.
UsageMins(usage) == usage.usage_raw \div 60

CpuRunMinsOf(usage) == usage.grp_used_cpu_run_secs \div 60

\* The zeroed local record whatever the list holds.
UsedLimitsLocal(q, uid) == NewUsedLimits(uid)

\* The per-user record of a QOS, or a zeroed local one.
UsedLimitsOf(q, uid) ==
    LET idx == _get_used_limits_for_user(q.usage.user_limit_list, uid)
    IN  IF idx = 0 THEN NewUsedLimits(uid) ELSE q.usage.user_limit_list[idx]

(***************************************************************************)
(* The used_limits record of one call of _qos_job_runnable_pre_select or   *)
(* _qos_job_runnable_post_select on QOS q for user uid.  When the QOS's    *)
(* list holds no entry for the user the call allocates a record of its own *)
(* (free_used_limits) and frees it at end_it; the list is not written.     *)
(* The result is the list after the call and the number of records of the  *)
(* call still allocated when it returns.                                   *)
(***************************************************************************)
UsedLimitsScratchInserted(q, uid) ==
    LET list == q.usage.user_limit_list
    IN  [list |-> IF _get_used_limits_for_user(list, uid) = 0
                  THEN Append(list, NewUsedLimits(uid)) ELSE list,
         live |-> 0]

UsedLimitsScratch(q, uid) ==
    LET list == q.usage.user_limit_list
        allocated == _get_used_limits_for_user(list, uid) = 0
        free_used_limits == allocated
    IN  [list |-> list,
         live |-> (IF allocated THEN 1 ELSE 0)
                     - (IF free_used_limits THEN 1 ELSE 0)]

\* The QOS table after the calls on the QOS of calls, in turn, and the
\* number of records those calls left allocated.
RECURSIVE QosAfterQueries(_, _, _)
QosAfterQueries(qtab, calls, uid) ==
    IF calls = << >> THEN qtab
    ELSE QosAfterQueries(
            [qtab EXCEPT ![Head(calls)].usage.user_limit_list =
                            UsedLimitsScratch(qtab[Head(calls)], uid).list],
            Tail(calls), uid)

RECURSIVE ScratchLive(_, _, _)
ScratchLive(qtab, calls, uid) ==
    IF calls = << >> THEN 0
    ELSE UsedLimitsScratch(qtab[Head(calls)], uid).live
            + ScratchLive(qtab, Tail(calls), uid)

\* The QOS a query function is called on: the first of the order, and the
\* second when the call on the first returned true.
QosCalled(order, rc1) ==
    (IF order[1] # 0 THEN <<order[1]>> ELSE << >>)
       \o (IF order[2] # 0 /\ rc1 THEN <<order[2]>> ELSE << >>)

(***************************************************************************)
(* The checks of the post-select functions thread a record                 *)
(* [rc, reason, out]: rc the result so far, reason the job's state_reason, *)
(* out the limits of qos_out_ptr.  A check that does not apply, or that    *)
(* comes after a failure (goto end_it), leaves the record alone; one that  *)
(* applies claims the limit in out and fails with its reason or passes.    *)
(***************************************************************************)
QosCheck(st, q, name, guard, fails, reason) ==
    IF ~st.rc \/ ~guard \/ st.out[name] # INFINITE \/ q.lim[name] = INFINITE
    THEN st
    ELSE [rc |-> ~fails,
          reason |-> IF fails THEN reason ELSE st.reason,
          out |-> [st.out EXCEPT ![name] = q.lim[name]]]

\* The group CPU-minutes test written with the safe branch first: the
\* subtraction wraps when the usage is beyond the limit.
GrpCpuMinsHoldsSafeFirst(safe_limits, usage_mins, cpu_run_mins, job_cpu_time_limit, limit) ==
    IF safe_limits
    THEN U64(job_cpu_time_limit + cpu_run_mins) > U64(limit - usage_mins)
    ELSE usage_mins >= limit

\* The group CPU-minutes test without the minutes of the running jobs.
GrpCpuMinsHoldsNoRunMins(safe_limits, usage_mins, cpu_run_mins, job_cpu_time_limit, limit) ==
    \/ usage_mins >= limit
    \/ safe_limits /\ job_cpu_time_limit > U64(limit - usage_mins)

\* The group CPU-minutes test: the job is held when the usage has reached
\* the limit, and with safe limits also when what it may still use, with
\* what the running jobs may still use, does not fit in what is left.
GrpCpuMinsHolds(safe_limits, usage_mins, cpu_run_mins, job_cpu_time_limit, limit) ==
    \/ usage_mins >= limit
    \/ /\ safe_limits
       /\ U64(job_cpu_time_limit + cpu_run_mins) > U64(limit - usage_mins)

(***************************************************************************)
(* _qos_job_runnable_post_select(job_ptr, qos_ptr, qos_out_ptr, ...).      *)
(***************************************************************************)
_qos_job_runnable_post_select(enforce, jb, q, st, node_cnt, cpu_cnt, job_memory, job_cpu_time_limit, admin_set_memory_limit) ==
    LET usage_mins == UsageMins(q.usage)
        cpu_run_mins == CpuRunMinsOf(q.usage)
        used_limits == UsedLimitsOf(q, jb.user_id)
        cpu_free == jb.limit_set.min_tres_cpu # ADMIN_SET_LIMIT
        node_free == jb.limit_set.min_nodes # ADMIN_SET_LIMIT
        s1 == QosCheck(st, q, "grp_cpu_mins", TRUE,
                 GrpCpuMinsHolds("SAFE" \in enforce, usage_mins, cpu_run_mins,
                                 job_cpu_time_limit, q.lim.grp_cpu_mins),
                 "WAIT_QOS_GRP_CPU_MIN")
        s2 == QosCheck(s1, q, "grp_cpus", cpu_free,
                 \/ cpu_cnt > q.lim.grp_cpus
                 \/ U32(q.usage.grp_used_cpus + cpu_cnt) > q.lim.grp_cpus,
                 "WAIT_QOS_GRP_CPU")
        s3 == QosCheck(s2, q, "grp_mem", ~admin_set_memory_limit,
                 \/ job_memory > q.lim.grp_mem
                 \/ U32(q.usage.grp_used_mem + job_memory) > q.lim.grp_mem,
                 "WAIT_QOS_GRP_MEMORY")
        s4 == QosCheck(s3, q, "grp_cpu_run_mins", TRUE,
                 U64(cpu_run_mins + job_cpu_time_limit)
                    > q.lim.grp_cpu_run_mins,
                 "WAIT_QOS_GRP_CPU_RUN_MIN")
        s5 == QosCheck(s4, q, "grp_nodes", node_free,
                 \/ node_cnt > q.lim.grp_nodes
                 \/ U32(q.usage.grp_used_nodes + node_cnt) > q.lim.grp_nodes,
                 "WAIT_QOS_GRP_NODES")
        s6 == QosCheck(s5, q, "max_cpu_mins_pj", TRUE,
                 /\ jb.time_limit # NO_VAL
                 /\ job_cpu_time_limit > q.lim.max_cpu_mins_pj,
                 "WAIT_QOS_MAX_CPU_MINS_PER_JOB")
        s7 == QosCheck(s6, q, "max_cpus_pj", cpu_free,
                 cpu_cnt > q.lim.max_cpus_pj,
                 "WAIT_QOS_MAX_CPUS_PER_JOB")
        s8 == QosCheck(s7, q, "min_cpus_pj", cpu_free,
                 cpu_cnt # 0 /\ cpu_cnt < q.lim.min_cpus_pj,
                 "WAIT_QOS_MIN_CPUS")
        s9 == QosCheck(s8, q, "max_cpus_pu", cpu_free,
                 \/ cpu_cnt > q.lim.max_cpus_pu
                 \/ U32(used_limits.cpus + cpu_cnt) > q.lim.max_cpus_pu,
                 "WAIT_QOS_MAX_CPU_PER_USER")
        s10 == QosCheck(s9, q, "max_nodes_pj", node_free,
                  node_cnt > q.lim.max_nodes_pj,
                  "WAIT_QOS_MAX_NODE_PER_JOB")
        s11 == QosCheck(s10, q, "max_nodes_pu", node_free,
                  \/ node_cnt > q.lim.max_nodes_pu
                  \/ U32(used_limits.nodes + node_cnt) > q.lim.max_nodes_pu,
                  "WAIT_QOS_MAX_NODE_PER_USER")
    IN  s11

(***************************************************************************)
(* acct_policy_job_runnable_post_select(job_ptr, node_cnt, cpu_cnt,        *)
(* pn_min_memory): the walk over the associations, then the whole call.    *)
(* An association check applies when qos_rec does not hold the limit and   *)
(* the association sets it; it claims nothing.                             *)
(***************************************************************************)
AssocCheck(st, name, guard, limit, fails, reason) ==
    IF ~st.rc \/ ~guard \/ st.out[name] # INFINITE \/ limit = INFINITE
    THEN st
    ELSE [st EXCEPT !.rc = ~fails,
                    !.reason = IF fails THEN reason ELSE st.reason]

PostSelectAssocOne(enforce, jb, a, parent, st, node_cnt, cpu_cnt, job_memory, job_cpu_time_limit, admin_set_memory_limit) ==
    LET usage_mins == UsageMins(a.usage)
        cpu_run_mins == CpuRunMinsOf(a.usage)
        cpu_free == jb.limit_set.min_tres_cpu # ADMIN_SET_LIMIT
        node_free == jb.limit_set.min_nodes # ADMIN_SET_LIMIT
        s1 == AssocCheck(st, "grp_cpu_mins", TRUE, a.lim.grp_cpu_mins,
                 GrpCpuMinsHolds("SAFE" \in enforce, usage_mins, cpu_run_mins,
                                 job_cpu_time_limit, a.lim.grp_cpu_mins),
                 "WAIT_ASSOC_GRP_CPU_MIN")
        s2 == AssocCheck(s1, "grp_cpus", cpu_free, a.lim.grp_cpus,
                 \/ cpu_cnt > U32(a.lim.grp_cpus)
                 \/ U32(a.usage.grp_used_cpus + cpu_cnt) > a.lim.grp_cpus,
                 "WAIT_ASSOC_GRP_CPU")
        s3 == AssocCheck(s2, "grp_mem", ~admin_set_memory_limit, a.lim.grp_mem,
                 \/ job_memory > a.lim.grp_mem
                 \/ U32(a.usage.grp_used_mem + job_memory) > a.lim.grp_mem,
                 "WAIT_ASSOC_GRP_MEMORY")
        s4 == AssocCheck(s3, "grp_cpu_run_mins", TRUE, a.lim.grp_cpu_run_mins,
                 U64(cpu_run_mins + job_cpu_time_limit)
                    > U32(a.lim.grp_cpu_run_mins),
                 "WAIT_ASSOC_GRP_CPU_RUN_MIN")
        s5 == AssocCheck(s4, "grp_nodes", node_free, a.lim.grp_nodes,
                 \/ node_cnt > a.lim.grp_nodes
                 \/ U32(a.usage.grp_used_nodes + node_cnt) > a.lim.grp_nodes,
                 "WAIT_ASSOC_GRP_NODES")
        s6 == AssocCheck(s5, "max_cpu_mins_pj", TRUE, a.lim.max_cpu_mins_pj,
                 /\ jb.time_limit # NO_VAL
                 /\ job_cpu_time_limit > a.lim.max_cpu_mins_pj,
                 "WAIT_ASSOC_MAX_CPU_MINS_PER_JOB")
        s7 == AssocCheck(s6, "max_cpus_pj", TRUE, a.lim.max_cpus_pj,
                 cpu_cnt > a.lim.max_cpus_pj,
                 "WAIT_ASSOC_MAX_CPUS_PER_JOB")
        s8 == AssocCheck(s7, "max_nodes_pj", TRUE, a.lim.max_nodes_pj,
                 node_cnt > a.lim.max_nodes_pj,
                 "WAIT_ASSOC_MAX_NODE_PER_JOB")
    IN  IF parent THEN s5 ELSE s8

RECURSIVE PostSelectAssocWalk(_, _, _, _, _, _, _, _, _, _, _)
PostSelectAssocWalk(enforce, jb, atab, ap, parent, st, node_cnt, cpu_cnt, job_memory, job_cpu_time_limit, admin_set_memory_limit) ==
    IF ap = 0 \/ ~st.rc THEN st
    ELSE PostSelectAssocWalk(
            enforce, jb, atab, atab[ap].parent_assoc_ptr, TRUE,
            PostSelectAssocOne(enforce, jb, atab[ap], parent, st, node_cnt,
                               cpu_cnt, job_memory, job_cpu_time_limit,
                               admin_set_memory_limit),
            node_cnt, cpu_cnt, job_memory, job_cpu_time_limit,
            admin_set_memory_limit)

\* job_memory of a selector proposal.
PostSelectJobMemory(pn_min_memory, node_cnt, cpu_cnt) ==
    IF pn_min_memory = 0 THEN 0
    ELSE IF pn_min_memory >= MEM_PER_CPU
         THEN U32((pn_min_memory - MEM_PER_CPU) * cpu_cnt)
         ELSE U32(pn_min_memory * node_cnt)

\* The result [rc, reason] of the call: reason is the job's state_reason
\* when it returns.
PostSelect(enforce, qtab, atab, parts, jb, node_cnt, cpu_cnt, pn_min_memory) ==
    IF enforce = {} \/ "LIMITS" \notin enforce
    THEN [rc |-> TRUE, reason |-> jb.state_reason, calls |-> << >>]
    ELSE LET reason0 == IF ~acct_policy_job_runnable_state(jb)
                        THEN "WAIT_NO_REASON" ELSE jb.state_reason
             job_cpu_time_limit == U64(jb.time_limit * cpu_cnt)
             admin_set_memory_limit ==
                 /\ pn_min_memory # 0
                 /\ \/ jb.limit_set.max_tres_mem = ADMIN_SET_LIMIT
                    \/ jb.limit_set.min_tres_cpu = ADMIN_SET_LIMIT
             job_memory == PostSelectJobMemory(pn_min_memory, node_cnt, cpu_cnt)
             order == _set_qos_order(qtab, parts, jb)
             st0 == [rc |-> TRUE, reason |-> reason0, out |-> InitQosLimits]
             st1 == IF order[1] # 0
                    THEN _qos_job_runnable_post_select(
                            enforce, jb, qtab[order[1]], st0, node_cnt,
                            cpu_cnt, job_memory, job_cpu_time_limit,
                            admin_set_memory_limit)
                    ELSE st0
             st2 == IF order[2] # 0
                    THEN _qos_job_runnable_post_select(
                            enforce, jb, qtab[order[2]], st1, node_cnt,
                            cpu_cnt, job_memory, job_cpu_time_limit,
                            admin_set_memory_limit)
                    ELSE st1
             st3 == PostSelectAssocWalk(
                       enforce, jb, atab, jb.assoc_ptr, FALSE, st2, node_cnt,
                       cpu_cnt, job_memory, job_cpu_time_limit,
                       admin_set_memory_limit)
         IN  [rc |-> st3.rc, reason |-> st3.reason,
              calls |-> QosCalled(order, st1.rc)]

(***************************************************************************)
(* SpecPost: post-select calls on a configuration in which the group       *)
(* CPU-minutes limit sits on the job's QOS, on the partition's QOS, on the *)
(* job's association or on its parent, with usage below, near and beyond   *)
(* the limit, next to a CPU and a node limit that are checked before it.   *)
(* The administrator may switch safe limits on and off between calls.      *)
(***************************************************************************)
PostQosChoices ==
    [grp_cpu_mins : {10, INFINITE}, grp_cpus : {1, INFINITE},
     usage_raw : {0, 540}, run_secs : {0, 120}]

PostPartQosChoices ==
    [grp_cpu_mins : {10, INFINITE}, usage_raw : {0, 660}]

PostAssocChoices ==
    [own_mins : {10, INFINITE}, acct_mins : {4, INFINITE},
     own_nodes_pj : {1, INFINITE}]

Proposals == {<<1, 1, 0>>, <<2, 2, 0>>}

InitPost ==
    /\ accounting_enforce \in
          {{"ASSOCIATIONS"}, {"ASSOCIATIONS", "LIMITS"},
           {"ASSOCIATIONS", "LIMITS", "SAFE"}}
    /\ \E c1 \in PostQosChoices, c2 \in PostPartQosChoices :
          qos = [q \in QosIds |->
                   IF q = 1
                   THEN [InitQosRec EXCEPT
                           !.lim.grp_cpu_mins = c1.grp_cpu_mins,
                           !.lim.grp_cpus = c1.grp_cpus,
                           !.usage.usage_raw = c1.usage_raw,
                           !.usage.grp_used_cpu_run_secs = c1.run_secs]
                   ELSE [InitQosRec EXCEPT
                           !.lim.grp_cpu_mins = c2.grp_cpu_mins,
                           !.usage.usage_raw = c2.usage_raw]]
    /\ \E c \in PostAssocChoices :
          assoc = [a \in AssocIds |->
                     IF a = 1
                     THEN [InitAssocRec(a) EXCEPT
                             !.lim.grp_cpu_mins = c.own_mins,
                             !.lim.max_nodes_pj = c.own_nodes_pj,
                             !.usage.usage_raw = 540]
                     ELSE IF a = AcctAssoc
                     THEN [InitAssocRec(a) EXCEPT
                             !.lim.grp_cpu_mins = c.acct_mins,
                             !.usage.usage_raw = 180,
                             !.usage.grp_used_cpu_run_secs = 60]
                     ELSE InitAssocRec(a)]
    /\ \E pq \in {0, 2} :
          part = [p \in PartIds |-> [max_time |-> INFINITE, qos_ptr |-> pq]]
    /\ \E jq \in {0, 1} :
          job = [j \in JobIds |->
                   IF j = 1 THEN MkJob(1, 1, "acct", jq, 1, 1, 1, 1, 0)
                   ELSE MkJob(2, 2, "acct", 0, 2, 1, 1, 1, 0)]
    /\ hist = [j \in JobIds |-> InitHist]
    /\ nops = 0
    /\ rt = NoRt
    /\ ret = NoRet

acct_policy_job_runnable_post_select(j, node_cnt, cpu_cnt, pn_min_memory) ==
    LET r == PostSelect(accounting_enforce, qos, assoc, part, job[j],
                        node_cnt, cpu_cnt, pn_min_memory)
        safe == "SAFE" \in accounting_enforce
        again == /\ ret.op = "post_select"
                 /\ ret.job = j
                 /\ ret.proposal = <<node_cnt, cpu_cnt, pn_min_memory>>
                 /\ ret.safe /\ ~safe
    IN  /\ job' = [job EXCEPT ![j].state_reason = r.reason]
        /\ qos' = QosAfterQueries(qos, r.calls, job[j].user_id)
        /\ ret' = [op |-> "post_select", job |-> j,
                   proposal |-> <<node_cnt, cpu_cnt, pn_min_memory>>,
                   safe |-> safe, rc |-> r.rc, reason |-> r.reason,
                   entry_reason |-> job[j].state_reason,
                   scratch |-> ScratchLive(qos, r.calls, job[j].user_id)]
        /\ rt' = IF again THEN [stage |-> 2, prev_rc |-> ret.rc]
                 ELSE [stage |-> 1]
        /\ UNCHANGED <<accounting_enforce, assoc, part, hist, nops>>

\* The administrator switches safe limits on or off (a reconfiguration).
SwitchSafeLimits ==
    /\ "LIMITS" \in accounting_enforce
    /\ accounting_enforce' =
          IF "SAFE" \in accounting_enforce
          THEN accounting_enforce \ {"SAFE"}
          ELSE accounting_enforce \cup {"SAFE"}
    /\ UNCHANGED <<qos, assoc, part, job, hist, nops, rt, ret>>

NextPost ==
    \/ \E j \in JobIds, p \in Proposals :
          acct_policy_job_runnable_post_select(j, p[1], p[2], p[3])
    \/ SwitchSafeLimits

SpecPost == InitPost /\ [][NextPost]_vars

\* The QOS of the pair that supplies the job's group CPU-minutes limit: the
\* primary when it sets one, else the secondary when that sets one, else 0.
GrpCpuMinsQos(j) ==
    LET order == _set_qos_order(qos, part, job[j])
        sets(q) == q # 0 /\ qos[q].lim.grp_cpu_mins # INFINITE
    IN  IF sets(order[1]) THEN order[1]
        ELSE IF sets(order[2]) THEN order[2] ELSE 0

\* job_cpu_time_limit + cpu_run_mins > L - usage_mins, in the integers.
NoRoomToComplete(j, cpu_cnt, usage, limit) ==
    job[j].time_limit * cpu_cnt + usage.grp_used_cpu_run_secs \div 60
        > limit - usage.usage_raw \div 60

QosHoldReason ==
    [grp_cpu_mins |-> "WAIT_QOS_GRP_CPU_MIN", grp_cpus |-> "WAIT_QOS_GRP_CPU",
     grp_mem |-> "WAIT_QOS_GRP_MEMORY",
     grp_cpu_run_mins |-> "WAIT_QOS_GRP_CPU_RUN_MIN",
     grp_nodes |-> "WAIT_QOS_GRP_NODES",
     max_cpu_mins_pj |-> "WAIT_QOS_MAX_CPU_MINS_PER_JOB",
     max_cpus_pj |-> "WAIT_QOS_MAX_CPUS_PER_JOB",
     min_cpus_pj |-> "WAIT_QOS_MIN_CPUS",
     max_cpus_pu |-> "WAIT_QOS_MAX_CPU_PER_USER",
     max_nodes_pj |-> "WAIT_QOS_MAX_NODE_PER_JOB",
     max_nodes_pu |-> "WAIT_QOS_MAX_NODE_PER_USER"]

AssocHoldReason ==
    [grp_cpu_mins |-> "WAIT_ASSOC_GRP_CPU_MIN", grp_cpus |-> "WAIT_ASSOC_GRP_CPU",
     grp_mem |-> "WAIT_ASSOC_GRP_MEMORY",
     grp_cpu_run_mins |-> "WAIT_ASSOC_GRP_CPU_RUN_MIN",
     grp_nodes |-> "WAIT_ASSOC_GRP_NODES",
     max_cpu_mins_pj |-> "WAIT_ASSOC_MAX_CPU_MINS_PER_JOB",
     max_cpus_pj |-> "WAIT_ASSOC_MAX_CPUS_PER_JOB",
     max_nodes_pj |-> "WAIT_ASSOC_MAX_NODE_PER_JOB"]

\* The reasons of the limits that are set on a QOS, on an association.
ReasonsSetOnQos(q) ==
    {QosHoldReason[n] : n \in {m \in DOMAIN QosHoldReason :
                                 qos[q].lim[m] # INFINITE}}

ReasonsSetOnAssoc(a) ==
    {AssocHoldReason[n] : n \in {m \in DOMAIN AssocHoldReason :
                                   assoc[a].lim[m] # INFINITE}}

\* The associations of the job's chain, in the order of the walk, that
\* have a group CPU-minutes limit the job has no room to complete in.
NoRoomAssocs(j, cpu_cnt) ==
    SelectSeq(AssocChain(assoc, job[j].assoc_ptr),
              LAMBDA a : /\ assoc[a].lim.grp_cpu_mins # INFINITE
                         /\ NoRoomToComplete(j, cpu_cnt, assoc[a].usage,
                                             assoc[a].lim.grp_cpu_mins))

\* C8: a proposal that post_select admits with safe limits on, it admits
\* with safe limits off, everything else the same.
C8_SafeAdmitImpliesPlainAdmit ==
    (rt.stage = 2 /\ rt.prev_rc) => ret.rc

\* The same proposal of a job under a group CPU-minutes limit was admitted
\* with safe limits on and then checked again with safe limits off.
C8_Witness ==
    /\ rt.stage = 2 /\ rt.prev_rc
    /\ ret.op = "post_select" /\ ret.rc
    /\ GrpCpuMinsQos(ret.job) # 0
    /\ qos[GrpCpuMinsQos(ret.job)].usage.usage_raw > 0

\* C9 as stated: with safe limits on and a finite group CPU-minutes limit L
\* on the QOS that supplies it or, when no QOS sets one, on an association
\* of the chain, post_select returns false with the GRP_CPU_MIN reason
\* whenever job_cpu_time_limit + cpu_run_mins > L - usage_mins; with safe
\* limits off that limit holds the job only when usage_mins >= L.
C9_SafeHoldsWithGrpCpuMinReason ==
    ret.op = "post_select" =>
        LET j == ret.job
            cpu_cnt == ret.proposal[2]
            q == GrpCpuMinsQos(j)
            late == NoRoomAssocs(j, cpu_cnt)
        IN  /\ (/\ ret.safe /\ q # 0
                /\ NoRoomToComplete(j, cpu_cnt, qos[q].usage,
                                    qos[q].lim.grp_cpu_mins))
                  => ~ret.rc /\ ret.reason = "WAIT_QOS_GRP_CPU_MIN"
            /\ (ret.safe /\ q = 0 /\ late # << >>)
                  => ~ret.rc /\ ret.reason = "WAIT_ASSOC_GRP_CPU_MIN"
            /\ (~ret.safe /\ ~ret.rc /\ ret.reason = "WAIT_QOS_GRP_CPU_MIN")
                  => /\ q # 0
                     /\ qos[q].usage.usage_raw \div 60 >= qos[q].lim.grp_cpu_mins
            /\ (~ret.safe /\ ~ret.rc /\ ret.reason = "WAIT_ASSOC_GRP_CPU_MIN")
                  => /\ q = 0
                     /\ \E a \in JobAssocSet(j) :
                           /\ assoc[a].lim.grp_cpu_mins # INFINITE
                           /\ assoc[a].usage.usage_raw \div 60
                                 >= assoc[a].lim.grp_cpu_mins

\* C9 amended: under the same conditions post_select returns false.  The
\* reason is the GRP_CPU_MIN reason when the limit is on the primary QOS;
\* when it is on the secondary QOS or on an association, the reason is the
\* GRP_CPU_MIN reason or the reason of a limit that is set on a record
\* checked before: the primary QOS for the secondary, both QOS and the
\* associations nearer to the job for an association.  With safe limits
\* off the limit holds the job only when usage_mins >= L.
C9_SafeHoldsReasonOfFirstHold ==
    ret.op = "post_select" =>
        LET j == ret.job
            cpu_cnt == ret.proposal[2]
            order == _set_qos_order(qos, part, job[j])
            q == GrpCpuMinsQos(j)
            late == NoRoomAssocs(j, cpu_cnt)
            chain == AssocChain(assoc, job[j].assoc_ptr)
            nearer(a) == {chain[i] : i \in {k \in 1..Len(chain) :
                             \E m \in (k + 1)..Len(chain) : chain[m] = a}}
        IN  /\ (/\ ret.safe /\ q # 0
                /\ NoRoomToComplete(j, cpu_cnt, qos[q].usage,
                                    qos[q].lim.grp_cpu_mins))
                  => /\ ~ret.rc
                     /\ q = order[1] => ret.reason = "WAIT_QOS_GRP_CPU_MIN"
                     /\ q # order[1] =>
                           ret.reason \in {"WAIT_QOS_GRP_CPU_MIN"}
                                             \cup ReasonsSetOnQos(order[1])
            /\ (ret.safe /\ q = 0 /\ late # << >>)
                  => /\ ~ret.rc
                     /\ ret.reason \in
                           {"WAIT_ASSOC_GRP_CPU_MIN"}
                              \cup UNION {ReasonsSetOnQos(x) : x \in JobQosSet(j)}
                              \cup UNION {ReasonsSetOnAssoc(a) : a \in nearer(late[1])}
            /\ (~ret.safe /\ ~ret.rc /\ ret.reason = "WAIT_QOS_GRP_CPU_MIN")
                  => /\ q # 0
                     /\ qos[q].usage.usage_raw \div 60 >= qos[q].lim.grp_cpu_mins
            /\ (~ret.safe /\ ~ret.rc /\ ret.reason = "WAIT_ASSOC_GRP_CPU_MIN")
                  => /\ q = 0
                     /\ \E a \in JobAssocSet(j) :
                           /\ assoc[a].lim.grp_cpu_mins # INFINITE
                           /\ assoc[a].usage.usage_raw \div 60
                                 >= assoc[a].lim.grp_cpu_mins

\* With safe limits on, a job with room left in the limit of the secondary
\* QOS to start but not to complete was held for it.
C9_Witness ==
    /\ ret.op = "post_select" /\ ret.safe /\ ~ret.rc
    /\ ret.reason = "WAIT_QOS_GRP_CPU_MIN"
    /\ Cardinality(JobQosSet(ret.job)) = 2
    /\ GrpCpuMinsQos(ret.job) = _set_qos_order(qos, part, job[ret.job])[2]
    /\ qos[GrpCpuMinsQos(ret.job)].usage.usage_raw \div 60
          < qos[GrpCpuMinsQos(ret.job)].lim.grp_cpu_mins

(***************************************************************************)
(* SpecUser: jobs of one user begin and end on a QOS pair whose per-user   *)
(* CPU and node limits, and the group CPU limit checked before them, are   *)
(* set or not; post-select is asked about job 1, of the same user, with    *)
(* proposals below, at and above the limits.  Job 1's CPU and node limits  *)
(* may be set by an administrator.  A job begins when it is not running    *)
(* and ends when it is.                                                    *)
(***************************************************************************)
UserQosChoices ==
    [max_cpus_pu : {8, INFINITE}, max_nodes_pu : {3, INFINITE},
     grp_cpus : {9, INFINITE}]

UserPartQosChoices == [max_cpus_pu : {5, INFINITE}, max_nodes_pu : {2, INFINITE}]

UserProposals == {<<1, 4, 0>>, <<2, 2, 0>>, <<4, 9, 0>>}

UserJob(j, jq, cpu_set, node_set) ==
    IF j = 1
    THEN [MkJob(1, 1, "acct", jq, 1, 1, 1, 1, 0) EXCEPT
            !.limit_set.min_tres_cpu = cpu_set, !.limit_set.min_nodes = node_set]
    ELSE IF j = 2 THEN MkJob(1, 1, "acct", 1, 1, 6, 2, 1, 0)
    ELSE MkJob(2, 2, "acct", 1, 1, 1, 1, 1, 0)

InitUser ==
    /\ accounting_enforce = {"ASSOCIATIONS", "LIMITS"}
    /\ \E c1 \in UserQosChoices, c2 \in UserPartQosChoices,
          fl \in {{}, {"PART_QOS"}} :
          qos = [q \in QosIds |->
                   IF q = 1
                   THEN [InitQosRec EXCEPT
                           !.flags = fl,
                           !.lim.max_cpus_pu = c1.max_cpus_pu,
                           !.lim.max_nodes_pu = c1.max_nodes_pu,
                           !.lim.grp_cpus = c1.grp_cpus]
                   ELSE [InitQosRec EXCEPT
                           !.lim.max_cpus_pu = c2.max_cpus_pu,
                           !.lim.max_nodes_pu = c2.max_nodes_pu]]
    /\ assoc = [a \in AssocIds |-> InitAssocRec(a)]
    /\ \E pq \in {0, 2} :
          part = [p \in PartIds |-> [max_time |-> INFINITE, qos_ptr |-> pq]]
    /\ \E jq \in {0, 1}, cpu_set \in {0, ADMIN_SET_LIMIT},
          node_set \in {0, ADMIN_SET_LIMIT} :
          job = [j \in JobIds |-> UserJob(j, jq, cpu_set, node_set)]
    /\ hist = [j \in JobIds |-> InitHist]
    /\ nops = 0
    /\ rt = NoRt
    /\ ret = NoRet

NextUser ==
    \/ \E j \in JobIds \ {1} : ~Running(j) /\ acct_policy_job_begin(j)
    \/ \E j \in JobIds \ {1} : Running(j) /\ acct_policy_job_fini(j)
    \/ \E p \in UserProposals :
          acct_policy_job_runnable_post_select(1, p[1], p[2], p[3])

SpecUser == InitUser /\ [][NextUser]_vars

\* The checks of _qos_job_runnable_post_select in the order it makes them.
QosCheckOrder ==
    <<"grp_cpu_mins", "grp_cpus", "grp_mem", "grp_cpu_run_mins", "grp_nodes",
      "max_cpu_mins_pj", "max_cpus_pj", "min_cpus_pj", "max_cpus_pu",
      "max_nodes_pj", "max_nodes_pu">>

CheckIndex(n) == CHOOSE i \in 1..Len(QosCheckOrder) : QosCheckOrder[i] = n

\* The QOS of the pair that supplies limit n of job j: the primary when it
\* sets one, else the secondary when that sets one, else 0.
LimitQos(j, n) ==
    LET order == _set_qos_order(qos, part, job[j])
        sets(q) == q # 0 /\ qos[q].lim[n] # INFINITE
    IN  IF sets(order[1]) THEN order[1]
        ELSE IF sets(order[2]) THEN order[2] ELSE 0

\* The last call was post-select and nothing has changed since.
PostSelectReturned == ret.op = "post_select" /\ rt.stage >= 1

\* The job's request for the kind of resource limit n counts is not set by
\* an administrator.
NotAdminSet(j, n) ==
    IF n \in {"max_nodes_pu"}
    THEN job[j].limit_set.min_nodes # ADMIN_SET_LIMIT
    ELSE job[j].limit_set.min_tres_cpu # ADMIN_SET_LIMIT

\* The proposal of the last call is over limit n of QOS q by itself or with
\* what is in use already (the user's use for a per-user limit, taken as 0
\* when the user has no record there), in the integers.
OverLimit(j, q, n) ==
    LET cnt == IF n = "max_nodes_pu" THEN ret.proposal[1] ELSE ret.proposal[2]
        ul == UserEntry(q, job[j].user_id)
        used == IF n = "max_cpus_pu" THEN ul.cpus
                ELSE IF n = "max_nodes_pu" THEN ul.nodes
                ELSE qos[q].usage.grp_used_cpus
    IN  cnt > qos[q].lim[n] \/ used + cnt > qos[q].lim[n]

\* Limit n of the QOS that supplies it holds the job of the last call.
PerUserHold(j, n) ==
    /\ LimitQos(j, n) # 0
    /\ NotAdminSet(j, n)
    /\ OverLimit(j, LimitQos(j, n), n)

\* A limit checked before limit n of QOS q may hold the job: one of the
\* primary QOS when q is the secondary, or one that q supplies and that
\* comes before n in the order of the checks.  For the group CPU limit and
\* the two per-user limits that is decided; any other limit set counts.
EarlierHold(j, q, n) ==
    LET order == _set_qos_order(qos, part, job[j])
    IN  \E m \in DOMAIN QosHoldReason :
           /\ LimitQos(j, m) # 0
           /\ \/ LimitQos(j, m) = order[1] /\ q = order[2]
              \/ LimitQos(j, m) = q /\ CheckIndex(m) < CheckIndex(n)
           /\ m \in {"grp_cpus", "max_cpus_pu", "max_nodes_pu"}
                 => PerUserHold(j, m)

\* C14: with limits enforced, when the QOS that supplies max_cpus_pu has a
\* finite one and the job's CPU limit is not admin-set, post_select returns
\* false whenever cpu_cnt > max_cpus_pu or the user's cpus in use there plus
\* cpu_cnt > max_cpus_pu, with reason WAIT_QOS_MAX_CPU_PER_USER if no limit
\* checked before it is violated; and likewise for max_nodes_pu, node_cnt,
\* the node limit of the job and WAIT_QOS_MAX_NODE_PER_USER.
C14_PerUserLimitHolds ==
    (PostSelectReturned /\ LimitsEnforced) =>
        \A n \in {"max_cpus_pu", "max_nodes_pu"} :
            PerUserHold(ret.job, n) =>
                /\ ~ret.rc
                /\ ~EarlierHold(ret.job, LimitQos(ret.job, n), n)
                      => ret.reason = QosHoldReason[n]

\* The user had 6 CPUs in use on a QOS with max_cpus_pu 8 and was refused 4
\* more with the per-user reason.
C14_Witness ==
    /\ PostSelectReturned /\ LimitsEnforced
    /\ ret.proposal[2] = 4
    /\ LimitQos(ret.job, "max_cpus_pu") = 1
    /\ qos[1].lim.max_cpus_pu = 8
    /\ UserEntry(1, job[ret.job].user_id).cpus = 6
    /\ ~ret.rc /\ ret.reason = "WAIT_QOS_MAX_CPU_PER_USER"

\* The node limit held the job by the use already made, on the secondary
\* QOS, the primary not setting one.
C14_WitnessNodes ==
    /\ PostSelectReturned /\ LimitsEnforced
    /\ LimitQos(ret.job, "max_nodes_pu") # 0
    /\ LimitQos(ret.job, "max_nodes_pu")
          = _set_qos_order(qos, part, job[ret.job])[2]
    /\ ret.proposal[1] <= qos[LimitQos(ret.job, "max_nodes_pu")].lim.max_nodes_pu
    /\ ~ret.rc /\ ret.reason = "WAIT_QOS_MAX_NODE_PER_USER"

(***************************************************************************)
(* _qos_policy_validate(job_desc, part_ptr, qos_ptr, qos_out_ptr, reason,  *)
(* acct_policy_limit_set, update_call, user_name, job_memory, job_cnt,     *)
(* strict_checking).  The checks thread a record                           *)
(*   [rc, reason, out, time_limit, limit_set_time, qos_time_limit]:        *)
(* out the limits of qos_out_ptr, time_limit and limit_set_time the two    *)
(* fields of the caller's job_desc and limit_set that the function         *)
(* writes, qos_time_limit its local variable of that name.  jd is the job  *)
(* descriptor, with its limit_set as on entry.  Every block starts by      *)
(* passing on a denial made before it: after rc = false the code jumps to  *)
(* end_it.                                                                 *)
(***************************************************************************)
Deny(st, jd, reason) ==
    [st EXCEPT !.rc = FALSE,
               !.reason = IF jd.reason_given THEN reason ELSE st.reason]

\* The CPU count the per-job CPU-minutes limit is divided by.
ValidateCpuCnt(jd) ==
    IF jd.min_nodes = NO_VAL \/ jd.tres_req_cpu > jd.min_nodes
    THEN U32(jd.tres_req_cpu) ELSE jd.min_nodes

QosValidateCpus(st, jd, q, strict_checking) ==
    IF ~st.rc THEN st
    ELSE IF \/ jd.limit_set.max_tres_cpu = ADMIN_SET_LIMIT
            \/ MIN(st.out.grp_cpus, st.out.max_cpus_pu) # INFINITE
            \/ MIN(q.lim.grp_cpus, q.lim.max_cpus_pu) = INFINITE
            \/ (jd.update_call /\ jd.tres_req_cpu = NO_VAL)
    THEN st
    ELSE IF strict_checking /\ jd.tres_req_cpu # NO_VAL
    THEN LET claimed == [st EXCEPT !.out.max_cpus_pu = q.lim.max_cpus_pu,
                                   !.out.grp_cpus = q.lim.grp_cpus]
         IN  IF jd.tres_req_cpu > q.lim.max_cpus_pu
             THEN Deny(claimed, jd, "WAIT_QOS_MAX_CPU_PER_USER")
             ELSE IF jd.tres_req_cpu > q.lim.grp_cpus
             THEN Deny(claimed, jd, "WAIT_QOS_GRP_CPU")
             ELSE claimed
    ELSE st

QosValidateMem(st, jd, q, job_memory, strict_checking) ==
    IF ~st.rc THEN st
    ELSE IF /\ jd.limit_set.max_tres_mem = 0 /\ strict_checking
            /\ st.out.grp_mem = INFINITE /\ q.lim.grp_mem # INFINITE
    THEN LET claimed == [st EXCEPT !.out.grp_mem = q.lim.grp_mem]
         IN  IF job_memory > q.lim.grp_mem
             THEN Deny(claimed, jd, "WAIT_QOS_GRP_MEMORY") ELSE claimed
    ELSE st

QosValidateNodes(st, jd, q, strict_checking) ==
    IF ~st.rc THEN st
    ELSE IF \/ jd.limit_set.max_nodes = ADMIN_SET_LIMIT
            \/ MIN(st.out.grp_nodes, st.out.max_nodes_pu) # INFINITE
            \/ MIN(q.lim.grp_nodes, q.lim.max_nodes_pu) = INFINITE
            \/ (jd.update_call /\ jd.max_nodes = NO_VAL)
    THEN st
    ELSE IF strict_checking /\ jd.min_nodes # NO_VAL
    THEN LET claimed == [st EXCEPT !.out.max_nodes_pu = q.lim.max_nodes_pu,
                                   !.out.grp_nodes = q.lim.grp_nodes]
         IN  IF jd.min_nodes > q.lim.max_nodes_pu
             THEN Deny(claimed, jd, "WAIT_QOS_MAX_NODE_PER_USER")
             ELSE IF jd.min_nodes > q.lim.grp_nodes
             THEN Deny(claimed, jd, "WAIT_QOS_GRP_NODES")
             ELSE claimed
    ELSE st

QosValidateGrpSubmit(st, jd, q) ==
    IF ~st.rc THEN st
    ELSE IF st.out.grp_submit_jobs = INFINITE /\ q.lim.grp_submit_jobs # INFINITE
    THEN LET claimed == [st EXCEPT !.out.grp_submit_jobs =
                                       q.lim.grp_submit_jobs]
         IN  IF U32(q.usage.grp_used_submit_jobs + jd.job_cnt)
                   > q.lim.grp_submit_jobs
             THEN Deny(claimed, jd, "WAIT_QOS_GRP_SUB_JOB") ELSE claimed
    ELSE st

\* qos_ptr->max_cpu_mins_pj / cpu_cnt with cpu_cnt = 0 is undefined: the
\* process is killed by SIGFPE, or the division yields some 32-bit value.
\* The descriptor of a call with such a divisor carries the outcome of the
\* call in div_by_zero.
SIGFPE == 0 - 1

DivByZeroOutcomes(jd) ==
    IF ValidateCpuCnt(jd) = 0 THEN {SIGFPE, 0, Word32 - 1} ELSE {0}

\* qos_time_limit: the wall limit the per-job CPU-minutes imply.  A call
\* that is killed returns nothing: it is kept as a failure with the
\* reason "SIGFPE".
QosValidateCpuMins(st, jd, q) ==
    IF ~st.rc THEN st
    ELSE IF /\ (jd.tres_req_cpu # NO_VAL \/ jd.min_nodes # NO_VAL)
                 /\ st.out.max_cpu_mins_pj = INFINITE
                 /\ q.lim.max_cpu_mins_pj # INFINITE
    THEN IF ValidateCpuCnt(jd) = 0
         THEN IF jd.div_by_zero = SIGFPE
              THEN [st EXCEPT !.rc = FALSE, !.reason = "SIGFPE"]
              ELSE [st EXCEPT !.out.max_cpu_mins_pj = q.lim.max_cpu_mins_pj,
                              !.qos_time_limit = jd.div_by_zero]
         ELSE [st EXCEPT !.out.max_cpu_mins_pj = q.lim.max_cpu_mins_pj,
                         !.qos_time_limit =
                            U32(q.lim.max_cpu_mins_pj \div ValidateCpuCnt(jd))]
    ELSE st

\* (qos_out_ptr->max_cpus_pj |= INFINITE) is an assignment: unless the
\* admin-set test before it is true it stores INFINITE in qos_out_ptr and
\* is true, so the branch that compares the request is never taken.
QosValidateMaxCpusPj(st, jd, q, strict_checking) ==
    IF ~st.rc \/ jd.limit_set.max_tres_cpu = ADMIN_SET_LIMIT THEN st
    ELSE [st EXCEPT !.out.max_cpus_pj = INFINITE]

QosValidateMaxNodesPj(st, jd, q, strict_checking) ==
    IF ~st.rc THEN st
    ELSE IF \/ jd.limit_set.max_nodes = ADMIN_SET_LIMIT
            \/ st.out.max_nodes_pj # INFINITE
            \/ q.lim.max_nodes_pj = INFINITE
            \/ (jd.update_call /\ jd.max_nodes = NO_VAL)
    THEN st
    ELSE IF strict_checking /\ jd.min_nodes # NO_VAL
    THEN LET claimed == [st EXCEPT !.out.max_nodes_pj = q.lim.max_nodes_pj]
         IN  IF jd.min_nodes > q.lim.max_nodes_pj
             THEN Deny(claimed, jd, "WAIT_QOS_MAX_NODE_PER_JOB")
             ELSE claimed
    ELSE st

QosValidateMaxSubmit(st, jd, q) ==
    IF ~st.rc THEN st
    ELSE IF /\ st.out.max_submit_jobs_pu = INFINITE
            /\ q.lim.max_submit_jobs_pu # INFINITE
    THEN LET idx == _get_used_limits_for_user(q.usage.user_limit_list,
                                              jd.user_id)
             claimed == [st EXCEPT !.out.max_submit_jobs_pu =
                                       q.lim.max_submit_jobs_pu]
         IN  IF \/ idx = 0 /\ q.lim.max_submit_jobs_pu = 0
                \/ /\ idx # 0
                   /\ U32(q.usage.user_limit_list[idx].submit_jobs + jd.job_cnt)
                         > q.lim.max_submit_jobs_pu
             THEN Deny(claimed, jd, "WAIT_QOS_MAX_SUB_JOB") ELSE claimed
    ELSE st

\* qos_time_limit after the max_wall_pj block.
QosValidateWallLimit(st, jd, q) ==
    IF \/ ~st.rc
       \/ jd.limit_set.time = ADMIN_SET_LIMIT
       \/ st.out.max_wall_pj # INFINITE
       \/ q.lim.max_wall_pj = INFINITE
       \/ (jd.update_call /\ st.time_limit = NO_VAL)
    THEN st
    ELSE [st EXCEPT !.out.max_wall_pj = q.lim.max_wall_pj,
                    !.qos_time_limit = MIN(st.qos_time_limit,
                                           q.lim.max_wall_pj)]

\* The same without the partition's max_time.
ApplyTimeLimitNoPart(st, jd, max_time, limit, strict_checking, reason) ==
    IF ~st.rc \/ limit = INFINITE THEN st
    ELSE IF st.time_limit = NO_VAL
    THEN [st EXCEPT !.time_limit = limit, !.limit_set_time = 1]
    ELSE IF st.limit_set_time # 0 /\ st.time_limit > limit
    THEN [st EXCEPT !.time_limit = limit]
    ELSE IF strict_checking /\ st.time_limit > limit
    THEN Deny(st, jd, reason)
    ELSE st

\* The same clipping a time limit whoever set it.
ApplyTimeLimitClipAll(st, jd, max_time, limit, strict_checking, reason) ==
    IF ~st.rc \/ limit = INFINITE THEN st
    ELSE IF st.time_limit = NO_VAL
    THEN [st EXCEPT !.time_limit = IF max_time = INFINITE THEN limit
                                   ELSE MIN(limit, max_time),
                    !.limit_set_time = 1]
    ELSE IF st.time_limit > limit
    THEN [st EXCEPT !.time_limit = limit]
    ELSE st

\* The time limit of the descriptor against a wall limit: set when it is
\* unspecified, clipped when a limit set it, denied under strict checking.
ApplyTimeLimit(st, jd, max_time, limit, strict_checking, reason) ==
    IF ~st.rc \/ limit = INFINITE THEN st
    ELSE IF st.time_limit = NO_VAL
    THEN [st EXCEPT !.time_limit = IF max_time = INFINITE THEN limit
                                   ELSE MIN(limit, max_time),
                    !.limit_set_time = 1]
    ELSE IF st.limit_set_time # 0 /\ st.time_limit > limit
    THEN [st EXCEPT !.time_limit = limit]
    ELSE IF strict_checking /\ st.time_limit > limit
    THEN Deny(st, jd, reason)
    ELSE st

QosValidateMinCpus(st, jd, q, strict_checking) ==
    IF ~st.rc THEN st
    ELSE IF /\ strict_checking
            /\ st.out.min_cpus_pj = INFINITE /\ q.lim.min_cpus_pj # INFINITE
    THEN LET claimed == [st EXCEPT !.out.min_cpus_pj = q.lim.min_cpus_pj]
         IN  IF jd.tres_req_cpu < q.lim.min_cpus_pj
             THEN Deny(claimed, jd, "WAIT_QOS_MIN_CPUS") ELSE claimed
    ELSE st

\* The blocks in the order of the code; a block runs only while no earlier
\* one has denied (goto end_it).  Nothing happens without a QOS.
_qos_policy_validate(jd, max_time, qtab, qp, st, job_memory, strict_checking) ==
    IF qp = 0 \/ ~st.rc THEN st
    ELSE LET q == qtab[qp]
             entered == [st EXCEPT !.qos_time_limit = INFINITE]
             timed ==
               QosValidateWallLimit(
                 QosValidateMaxSubmit(
                   QosValidateMaxNodesPj(
                     QosValidateMaxCpusPj(
                       QosValidateCpuMins(
                         QosValidateGrpSubmit(
                           QosValidateNodes(
                             QosValidateMem(
                               QosValidateCpus(entered, jd, q,
                                               strict_checking),
                               jd, q, job_memory, strict_checking),
                             jd, q, strict_checking),
                           jd, q),
                         jd, q),
                       jd, q, strict_checking),
                     jd, q, strict_checking),
                   jd, q),
                 jd, q)
         IN  QosValidateMinCpus(
               ApplyTimeLimit(timed, jd, max_time, timed.qos_time_limit,
                              strict_checking, "WAIT_QOS_MAX_WALL_PER_JOB"),
               jd, q, strict_checking)

\* The limit test with the comparison turned round: a request below the
\* association's limit is the one refused.
ValidateTresLimitsBelow(job_tres, assoc_tres, qos_tres, admin_set, strict_checking, update_call) ==
    \/ ~strict_checking
    \/ \A pos \in {1, 2} :
          ~ /\ admin_set[pos] # ADMIN_SET_LIMIT
            /\ qos_tres[pos] = INFINITE
            /\ assoc_tres[pos] # INFINITE
            /\ (job_tres[pos] # 0 \/ ~update_call)
            /\ job_tres[pos] < assoc_tres[pos]

(***************************************************************************)
(* _validate_tres_limits over the positions of the TRES catalogue.  Each   *)
(* array has one entry per TRES, CPU and memory first.  The job and the    *)
(* association records of the model carry the CPU and memory entries in    *)
(* fields of their own and the entries of the other TRES in an optional    *)
(* field: without it the job asks for nothing and the association sets no  *)
(* limit there.  acct_policy_validate zeroes qos_tres_ctld and fills in    *)
(* the CPU and memory entries only.                                        *)
(***************************************************************************)
TresNames == <<"cpu", "mem", "energy", "node">>

TresPositions == 1..Len(TresNames)

OtherTres(v) == [i \in 1..(Len(TresNames) - 2) |-> v]

JobTresReqCnt(jd) ==
    <<jd.tres_req_cpu, jd.tres_req_mem>>
    \o (IF "tres_req_other" \in DOMAIN jd THEN jd.tres_req_other ELSE OtherTres(0))

AdminSetMaxTres(jd) ==
    <<jd.limit_set.max_tres_cpu, jd.limit_set.max_tres_mem>>
    \o (IF "max_tres_other" \in DOMAIN jd THEN jd.max_tres_other ELSE OtherTres(0))

AssocGrpTresCtld(a) ==
    <<a.lim.grp_cpus, a.lim.grp_tres_mem>>
    \o (IF "grp_tres_other" \in DOMAIN a THEN a.grp_tres_other ELSE OtherTres(INFINITE))

AssocMaxTresCtld(a) ==
    <<a.lim.max_cpus_pj, a.lim.max_tres_mem>>
    \o (IF "max_tres_other" \in DOMAIN a THEN a.max_tres_other ELSE OtherTres(INFINITE))

\* memset(qos_tres_ctld, 0, ...), then the CPU and memory entries.
QosTresCtld(cpu, mem) == <<cpu, mem>> \o OtherTres(0)

_validate_tres_limits(job_tres, assoc_tres, qos_tres, admin_set, strict_checking, update_call) ==
    \/ ~strict_checking
    \/ \A pos \in TresPositions :
          ~ /\ admin_set[pos] # ADMIN_SET_LIMIT
            /\ qos_tres[pos] = INFINITE
            /\ assoc_tres[pos] # INFINITE
            /\ (job_tres[pos] # 0 \/ ~update_call)
            /\ job_tres[pos] > assoc_tres[pos]

\* One turn of the loop of acct_policy_validate over the associations.
ValidateAssocGrp(st, jd, a, strict_checking) ==
    IF ~st.rc THEN st
    ELSE IF ~_validate_tres_limits(JobTresReqCnt(jd), AssocGrpTresCtld(a),
                                   QosTresCtld(st.out.grp_cpus, st.out.grp_mem),
                                   AdminSetMaxTres(jd),
                                   strict_checking, jd.update_call)
    THEN Deny(st, jd, "WAIT_ASSOC_GRP_CPU")
    ELSE IF /\ ~ \/ jd.limit_set.max_nodes = ADMIN_SET_LIMIT
                 \/ st.out.grp_nodes # INFINITE
                 \/ a.lim.grp_nodes = INFINITE
                 \/ (jd.update_call /\ jd.max_nodes = NO_VAL)
            /\ strict_checking /\ jd.min_nodes # NO_VAL
            /\ jd.min_nodes > a.lim.grp_nodes
    THEN Deny(st, jd, "WAIT_ASSOC_GRP_NODES")
    ELSE IF /\ st.out.grp_submit_jobs = INFINITE
            /\ a.lim.grp_submit_jobs # INFINITE
            /\ U32(a.usage.used_submit_jobs + jd.job_cnt)
                  > a.lim.grp_submit_jobs
    THEN Deny(st, jd, "WAIT_ASSOC_GRP_SUB_JOB")
    ELSE st

\* The per-job limits are those of the job's own association only.
ValidateAssocMax(st, jd, a, parent, max_time, strict_checking) ==
    IF ~st.rc \/ parent THEN st
    ELSE IF ~_validate_tres_limits(JobTresReqCnt(jd), AssocMaxTresCtld(a),
                                   QosTresCtld(st.out.max_cpus_pj, INFINITE),
                                   AdminSetMaxTres(jd),
                                   strict_checking, jd.update_call)
    THEN Deny(st, jd, "WAIT_ASSOC_MAX_CPUS_PER_JOB")
    ELSE IF /\ ~ \/ jd.limit_set.max_nodes = ADMIN_SET_LIMIT
                 \/ st.out.max_nodes_pj # INFINITE
                 \/ a.lim.max_nodes_pj = INFINITE
                 \/ (jd.update_call /\ jd.max_nodes = NO_VAL)
            /\ strict_checking /\ jd.min_nodes # NO_VAL
            /\ jd.min_nodes > a.lim.max_nodes_pj
    THEN Deny(st, jd, "WAIT_ASSOC_MAX_NODE_PER_JOB")
    ELSE IF /\ st.out.max_submit_jobs_pu = INFINITE
            /\ a.lim.max_submit_jobs # INFINITE
            /\ U32(a.usage.used_submit_jobs + jd.job_cnt)
                  > a.lim.max_submit_jobs
    THEN Deny(st, jd, "WAIT_ASSOC_MAX_SUB_JOB")
    ELSE IF \/ jd.limit_set.time = ADMIN_SET_LIMIT
            \/ st.out.max_wall_pj # INFINITE
            \/ a.lim.max_wall_pj = INFINITE
            \/ (jd.update_call /\ st.time_limit = NO_VAL)
    THEN st
    ELSE ApplyTimeLimit(st, jd, max_time, a.lim.max_wall_pj, strict_checking,
                        "WAIT_ASSOC_MAX_WALL_PER_JOB")

RECURSIVE ValidateAssocWalk(_, _, _, _, _, _, _)
ValidateAssocWalk(st, jd, atab, ap, parent, max_time, strict_checking) ==
    IF ap = 0 \/ ~st.rc THEN st
    ELSE ValidateAssocWalk(
           ValidateAssocMax(
             ValidateAssocGrp(st, jd, atab[ap], strict_checking),
             jd, atab[ap], parent, max_time, strict_checking),
           jd, atab, atab[ap].parent_assoc_ptr, TRUE, max_time,
           strict_checking)

(***************************************************************************)
(* acct_policy_validate(job_desc, part_ptr, assoc_in, qos_ptr, reason,     *)
(* acct_policy_limit_set, update_call): [rc, reason, time_limit,           *)
(* limit_set_time] when it returns.  jd carries the descriptor, the        *)
(* pointers, whether a reason pointer is given and the limit_set.          *)
(***************************************************************************)
StrictChecking(qtab, order, jd) ==
    IF order[1] # 0
    THEN \/ jd.reason_given
         \/ "DENY_LIMIT" \in qtab[order[1]].flags
         \/ order[2] # 0 /\ "DENY_LIMIT" \in qtab[order[2]].flags
    ELSE jd.reason_given

Validate(qtab, atab, parts, jd) ==
    LET st0 == [rc |-> TRUE, reason |-> "WAIT_NO_REASON", out |-> InitQosLimits,
                time_limit |-> jd.time_limit,
                limit_set_time |-> jd.limit_set.time,
                qos_time_limit |-> INFINITE]
        order == _set_qos_order(qtab, parts, jd)
        strict_checking == StrictChecking(qtab, order, jd)
        max_time == parts[jd.part_ptr].max_time
        job_memory == U32(jd.tres_req_mem)
        st3 ==
          ValidateAssocWalk(
            _qos_policy_validate(
              jd, max_time, qtab, order[2],
              _qos_policy_validate(jd, max_time, qtab, order[1], st0,
                                   job_memory, strict_checking),
              job_memory, strict_checking),
            jd, atab, jd.assoc_ptr, FALSE, max_time, strict_checking)
    IN  IF jd.assoc_ptr = 0
        THEN [rc |-> FALSE, reason |-> "WAIT_NO_REASON",
              time_limit |-> jd.time_limit,
              limit_set_time |-> jd.limit_set.time]
        ELSE [rc |-> st3.rc, reason |-> st3.reason,
              time_limit |-> st3.time_limit,
              limit_set_time |-> st3.limit_set_time]

(***************************************************************************)
(* SpecValidate: submissions validated while the administrator tightens    *)
(* limits.  Every limit starts INFINITE; a tightening sets one limit of a  *)
(* QOS or of an association of the chain to a value, or lowers the value   *)
(* it has.  The job descriptors stay as submitted: what a call writes to   *)
(* its job_desc and limit_set is kept in ret.                              *)
(***************************************************************************)
MaxTighten == 2

MkJobDesc(uid, ap, qp, pp, cpu, mem, min_nodes, max_nodes, tl, reason_given, update_call, ls_time) ==
    [user_id |-> uid, assoc_ptr |-> ap, qos_ptr |-> qp, part_ptr |-> pp,
     tres_req_cpu |-> cpu, tres_req_mem |-> mem, min_nodes |-> min_nodes,
     max_nodes |-> max_nodes, time_limit |-> tl, job_cnt |-> 2,
     reason_given |-> reason_given, update_call |-> update_call,
     limit_set |-> [InitLimitSet EXCEPT !.time = ls_time]]

\* The first job is submitted to the partition that has a QOS: a full
\* request, a request without node count and time limit whose QOS carries
\* PART_QOS, or an update of the time limit alone.  The other jobs have
\* the job QOS only and are checked without a reason pointer, with a time
\* limit that an earlier limit set.
FirstJobDescs ==
    {<<MkJobDesc(1, 1, 1, 1, 4, 4, 4, 4, 4, TRUE, FALSE, 0), {}>>,
     <<MkJobDesc(1, 1, 1, 1, 4, 4, NO_VAL, NO_VAL, NO_VAL, TRUE, FALSE, 0),
       {"PART_QOS"}>>,
     <<MkJobDesc(1, 1, 1, 1, NO_VAL, NO_VAL, NO_VAL, NO_VAL, 4, TRUE, TRUE, 0),
       {}>>}

OtherJobDesc == MkJobDesc(2, 2, 1, 2, 4, 4, 4, 4, 4, FALSE, FALSE, 1)

QosTightenNames ==
    {"grp_cpus", "max_cpus_pu", "grp_mem", "grp_nodes", "max_nodes_pu",
     "grp_submit_jobs", "max_cpu_mins_pj", "max_cpus_pj", "max_nodes_pj",
     "max_submit_jobs_pu", "max_wall_pj", "min_cpus_pj"}

\* The limits of the job's own association that validate reads, and those
\* it reads of a parent.
AssocTightenNames(a) ==
    IF a \in Users
    THEN {"grp_cpus", "grp_tres_mem", "grp_nodes", "grp_submit_jobs",
          "max_cpus_pj", "max_tres_mem", "max_nodes_pj", "max_submit_jobs",
          "max_wall_pj"}
    ELSE {"grp_cpus", "grp_nodes", "grp_submit_jobs", "max_nodes_pj"}

\* The values a limit may be set to: one that the requests exceed, one they
\* fit in and, for the 64-bit CPU-minutes limit, one beyond 32 bits.
TightenValues(name) ==
    IF name = "max_cpu_mins_pj" THEN {8, 20, 4 * Word32} ELSE {2, 5}

Tightens(old, new) == new # INFINITE /\ (old = INFINITE \/ new < old)

InitValidate ==
    /\ accounting_enforce = {"ASSOCIATIONS", "LIMITS"}
    /\ \E d \in FirstJobDescs :
          /\ job = [j \in JobIds |-> IF j = 1 THEN d[1] ELSE OtherJobDesc]
          /\ qos = [q \in QosIds |->
                   [InitQosRec EXCEPT
                      !.flags = IF q = 1 THEN d[2] ELSE {},
                      !.usage.grp_used_submit_jobs = 2,
                      !.usage.user_limit_list =
                          IF q = 1
                          THEN <<[NewUsedLimits(1) EXCEPT !.submit_jobs = 2]>>
                          ELSE << >>]]
    /\ assoc = [a \in AssocIds |->
                  [InitAssocRec(a) EXCEPT !.usage.used_submit_jobs = 2]]
    /\ part = [p \in PartIds |->
                 [max_time |-> INFINITE, qos_ptr |-> IF p = 1 THEN 2 ELSE 0]]
    /\ hist = [j \in JobIds |-> InitHist]
    /\ nops = 0
    /\ rt = NoRt
    /\ ret = NoRet

\* rt follows a validation, one tightening, and the validation of the same
\* descriptor after it: stage 1 after the tightening, 2 after the second
\* call.
ValidateOutcome(j, div_by_zero) ==
    Validate(qos, assoc, part, job[j] @@ [div_by_zero |-> div_by_zero])

acct_policy_validate(j) ==
    \E div_by_zero \in DivByZeroOutcomes(job[j]) :
        /\ LET r == ValidateOutcome(j, div_by_zero)
           IN  ret' = [op |-> "validate", job |-> j, rc |-> r.rc,
                       reason |-> r.reason, time_limit |-> r.time_limit,
                       limit_set_time |-> r.limit_set_time]
        /\ rt' = IF rt.stage = 1 /\ "job" \in DOMAIN rt /\ rt.job = j
                 THEN [rt EXCEPT !.stage = 2] ELSE NoRt
        /\ UNCHANGED <<accounting_enforce, qos, assoc, part, job, hist, nops>>

Tightened(kind, id, name, old, new) ==
    /\ nops < MaxTighten
    /\ nops' = nops + 1
    /\ rt' = IF ret.op = "validate" /\ rt.stage # 1
             THEN [stage |-> 1, job |-> ret.job, prev_rc |-> ret.rc,
                   kind |-> kind, id |-> id, name |-> name, old |-> old,
                   new |-> new]
             ELSE NoRt
    /\ ret' = NoRet
    /\ UNCHANGED <<accounting_enforce, part, job, hist>>

TightenQosLimit(q, name, v) ==
    /\ Tightens(qos[q].lim[name], v)
    /\ qos' = [qos EXCEPT ![q].lim[name] = v]
    /\ UNCHANGED assoc
    /\ Tightened("qos", q, name, qos[q].lim[name], v)

TightenAssocLimit(a, name, v) ==
    /\ Tightens(assoc[a].lim[name], v)
    /\ assoc' = [assoc EXCEPT ![a].lim[name] = v]
    /\ UNCHANGED qos
    /\ Tightened("assoc", a, name, assoc[a].lim[name], v)

NextValidate ==
    \/ \E j \in JobIds : acct_policy_validate(j)
    \/ \E q \in QosIds, name \in QosTightenNames :
          \E v \in TightenValues(name) : TightenQosLimit(q, name, v)
    \/ \E a \in {1, AcctAssoc, RootAssoc} :
          \E name \in AssocTightenNames(a) :
             \E v \in TightenValues(name) : TightenAssocLimit(a, name, v)

SpecValidate == InitValidate /\ [][NextValidate]_vars

(***************************************************************************)
(* SpecTime: one validation of a descriptor whose time limit is            *)
(* unspecified, within or beyond the wall limits, and unset, set by a      *)
(* limit or set by an administrator, on a submission or an update, with or *)
(* without a reason pointer.  The wall limits of the two QOS, of the job's *)
(* association and of its parent, the CPU-minutes limit of the job's QOS,  *)
(* the partition's max_time and a submit limit of the association are set *)
(* or not.                                                                 *)
(***************************************************************************)
TimeQosChoices ==
    [max_wall_pj : {50, INFINITE}, max_cpu_mins_pj : {80, INFINITE},
     flags : {{}, {"PART_QOS"}, {"DENY_LIMIT"}}]

TimeAssocChoices ==
    [own_wall : {45, INFINITE}, parent_wall : {10, INFINITE},
     own_submit : {1, INFINITE}]

TimeJobDescs ==
    {MkJobDesc(1, 1, jq, 1, 4, 4, 2, 2, tl, rg, uc, ls) :
        jq \in {0, 1}, tl \in {NO_VAL, 25, 60}, rg \in BOOLEAN,
        uc \in BOOLEAN, ls \in {0, 1, ADMIN_SET_LIMIT}}

InitTime ==
    /\ accounting_enforce = {"ASSOCIATIONS", "LIMITS"}
    /\ \E c1 \in TimeQosChoices, wall2 \in {40, INFINITE} :
          qos = [q \in QosIds |->
                   IF q = 1
                   THEN [InitQosRec EXCEPT
                           !.flags = c1.flags,
                           !.lim.max_wall_pj = c1.max_wall_pj,
                           !.lim.max_cpu_mins_pj = c1.max_cpu_mins_pj]
                   ELSE [InitQosRec EXCEPT !.lim.max_wall_pj = wall2]]
    /\ \E c \in TimeAssocChoices :
          assoc = [a \in AssocIds |->
                     [InitAssocRec(a) EXCEPT
                        !.lim.max_wall_pj =
                            IF a \in Users THEN c.own_wall
                            ELSE IF a = AcctAssoc THEN c.parent_wall
                            ELSE INFINITE,
                        !.lim.max_submit_jobs =
                            IF a \in Users THEN c.own_submit ELSE INFINITE]]
    /\ \E mt \in {30, INFINITE}, pq \in {0, 2} :
          part = [p \in PartIds |-> [max_time |-> mt, qos_ptr |-> pq]]
    /\ \E d \in TimeJobDescs :
          job = [j \in JobIds |-> [d EXCEPT !.user_id = ((j - 1) % NumUsers) + 1,
                                            !.assoc_ptr = ((j - 1) % NumUsers) + 1]]
    /\ hist = [j \in JobIds |-> InitHist]
    /\ nops = 0
    /\ rt = NoRt
    /\ ret = NoRet

NextTime == \E j \in JobIds : acct_policy_validate(j)

SpecTime == InitTime /\ [][NextTime]_vars

\* The last call was a validation of the descriptor job[ret.job].
ValidateReturned == ret.op = "validate"

\* Strict checking of the claims: a reason pointer was given or a QOS of
\* the job carries DENY_LIMIT.
StrictOf(j) ==
    \/ job[j].reason_given
    \/ \E q \in JobQosSet(j) : "DENY_LIMIT" \in qos[q].flags

\* The time that max_cpu_mins_pj of the QOS pair allows the request: the
\* limit of the QOS that supplies it, divided by the larger of the CPU and
\* node counts asked for, as a 32-bit number; INFINITE when no QOS sets the
\* limit or neither count is given.
CpuMinsTimeCap(j) ==
    LET q == LimitQos(j, "max_cpu_mins_pj")
        cpus == job[j].tres_req_cpu
        nodes == job[j].min_nodes
        cnt == IF nodes = NO_VAL \/ cpus > nodes THEN cpus ELSE nodes
    IN  IF q = 0 \/ (cpus = NO_VAL /\ nodes = NO_VAL) THEN INFINITE
        ELSE (qos[q].lim.max_cpu_mins_pj \div cnt) % Word32

\* The wall limit of the job: max_wall_pj of the QOS pair (the primary's
\* when set, else the secondary's) and, only when no QOS sets one, of the
\* job's own association.
WallCap(j) ==
    IF LimitQos(j, "max_wall_pj") # 0
    THEN qos[LimitQos(j, "max_wall_pj")].lim.max_wall_pj
    ELSE assoc[job[j].assoc_ptr].lim.max_wall_pj

TimeCap(j) == MIN(WallCap(j), CpuMinsTimeCap(j))

\* The descriptor's time limit was unspecified, not set by an
\* administrator, and the call succeeded.
UnspecifiedTimeAdmitted ==
    /\ ValidateReturned /\ ret.rc
    /\ job[ret.job].time_limit = NO_VAL
    /\ job[ret.job].limit_set.time # ADMIN_SET_LIMIT

\* C15 as stated: when the time limit is unspecified on entry and not
\* admin-set, a successful validate sets it to the minimum of the QOS wall
\* limit, the partition's max_time and the association's max_wall_pj, and
\* sets limit_set.time to 1.
C15_TimeSetToMinOfAllCaps ==
    UnspecifiedTimeAdmitted =>
        LET j == ret.job
            qcap == IF LimitQos(j, "max_wall_pj") # 0
                    THEN qos[LimitQos(j, "max_wall_pj")].lim.max_wall_pj
                    ELSE INFINITE
        IN  /\ ret.time_limit =
                  MIN(qcap, MIN(part[job[j].part_ptr].max_time,
                                assoc[job[j].assoc_ptr].lim.max_wall_pj))
            /\ ret.limit_set_time = 1

\* C15 amended: on a call that is not an update, when the time limit is
\* unspecified on entry and not admin-set, a successful validate sets it to
\* the minimum of the job's cap and the partition's max_time and sets
\* limit_set.time to 1, the cap being the wall limit (of the QOS pair, or
\* of the job's association when no QOS sets one) or the time a QOS
\* CPU-minutes limit allows, whichever is less; when there is no cap the
\* time limit stays unspecified and limit_set.time is left as it was.
C15_TimeSetToCapWithinPartition ==
    (UnspecifiedTimeAdmitted /\ ~job[ret.job].update_call) =>
        LET j == ret.job
        IN  IF TimeCap(j) = INFINITE
            THEN /\ ret.time_limit = NO_VAL
                 /\ ret.limit_set_time = job[j].limit_set.time
            ELSE /\ ret.time_limit =
                       MIN(TimeCap(j), part[job[j].part_ptr].max_time)
                 /\ ret.limit_set_time = 1

\* No QOS sets a wall limit, the association allows 45, the partition 30,
\* and the time limit was set to 30.
C15_Witness ==
    /\ UnspecifiedTimeAdmitted /\ ~job[ret.job].update_call
    /\ LimitQos(ret.job, "max_wall_pj") = 0
    /\ assoc[job[ret.job].assoc_ptr].lim.max_wall_pj = 45
    /\ part[job[ret.job].part_ptr].max_time = 30
    /\ ret.time_limit = 30 /\ ret.limit_set_time = 1

\* The descriptor's time limit was specified by the user.
UserSpecifiedTime ==
    /\ ValidateReturned
    /\ job[ret.job].time_limit # NO_VAL
    /\ job[ret.job].limit_set.time = 0

\* No limit other than the time limits is set on a record of the job.
OnlyTimeLimitsSet(j) ==
    /\ \A q \in JobQosSet(j) :
          \A n \in QosLimitNames \ {"max_wall_pj", "max_cpu_mins_pj"} :
             qos[q].lim[n] = INFINITE
    /\ \A i \in 1..Len(AssocChain(assoc, job[j].assoc_ptr)) :
          \A n \in AssocLimitNames \ {"max_wall_pj"} :
             assoc[AssocChain(assoc, job[j].assoc_ptr)[i]].lim[n] = INFINITE

C16_WitnessStrict ==
    /\ UserSpecifiedTime /\ ~ret.rc
    /\ StrictOf(ret.job) /\ OnlyTimeLimitsSet(ret.job)
    /\ job[ret.job].time_limit > TimeCap(ret.job)

(***************************************************************************)
(* Claims about acct_policy_validate under a tightening of one limit.      *)
(***************************************************************************)
\* The descriptor was validated, one limit was lowered, and the same
\* descriptor was validated again.
Revalidated == rt.stage = 2 /\ ret.op = "validate" /\ ret.job = rt.job

\* The tightenings that cannot relax the verdict: of a limit of an
\* association, and of a QOS limit that was already set and fits 32 bits,
\* min_cpus_pj excepted.
TighteningOfSetLimit ==
    \/ rt.kind = "assoc"
    \/ /\ rt.kind = "qos"
       /\ rt.old < INFINITE
       /\ rt.name # "min_cpus_pj"

\* C6 as stated: with the descriptor, the usage and the limit_set fixed,
\* lowering any single limit of the association chain or of either QOS
\* never turns a result of false into true.
C6_TighteningNeverAdmits ==
    (Revalidated /\ ~rt.prev_rc) => ~ret.rc

\* C6 amended: lowering a limit of an association of the chain, or a QOS
\* limit other than min_cpus_pj that was already set (below INFINITE),
\* never turns a result of false into true.
C6_TighteningSetLimitNeverAdmits ==
    (Revalidated /\ ~rt.prev_rc /\ TighteningOfSetLimit) => ~ret.rc

\* A refused request stayed refused after a limit of a QOS that was already
\* set was lowered, and after a limit of its association was.
C6_Witness ==
    /\ Revalidated /\ ~rt.prev_rc /\ ~ret.rc
    /\ rt.kind = "qos" /\ rt.old < INFINITE /\ rt.name # "min_cpus_pj"
    /\ job[rt.job].reason_given
    /\ ret.reason # "WAIT_NO_REASON"

(***************************************************************************)
(* acct_policy_job_time_out(job_ptr) and _qos_job_time_out.  The checks    *)
(* thread the record [rc, reason, out] of the post-select checks: rc is    *)
(* TRUE as long as no limit has tripped, reason is the job's state_reason, *)
(* out the limits of qos_rec.  now is the value of time(NULL).             *)
(***************************************************************************)
\* The wall time of the group read in seconds.
WallSecs(usage) == U32(usage.grp_used_wall)

WallMins(usage) == U32(usage.grp_used_wall \div 60)

JobCpuUsageMins(jb, now) ==
    U64((((now - jb.start_time) - jb.tot_sus_time) \div 60) * jb.total_cpus)

_qos_job_time_out(q, st, job_cpu_usage_mins) ==
    QosCheck(
        QosCheck(
            QosCheck(st, q, "grp_cpu_mins", TRUE,
                     UsageMins(q.usage) >= q.lim.grp_cpu_mins, "FAIL_TIMEOUT"),
            q, "grp_wall", TRUE,
            WallMins(q.usage) >= q.lim.grp_wall, "FAIL_TIMEOUT"),
        q, "max_cpu_mins_pj", TRUE,
        job_cpu_usage_mins >= q.lim.max_cpu_mins_pj, "FAIL_TIMEOUT")

\* The three checks of one association of the loop (break on the first
\* that trips).
TimeOutAssocOne(a, st, job_cpu_usage_mins) ==
    AssocCheck(
        AssocCheck(
            AssocCheck(st, "grp_cpu_mins", TRUE, a.lim.grp_cpu_mins,
                       UsageMins(a.usage) >= a.lim.grp_cpu_mins,
                       "FAIL_TIMEOUT"),
            "grp_wall", TRUE, a.lim.grp_wall,
            WallMins(a.usage) >= a.lim.grp_wall, "FAIL_TIMEOUT"),
        "max_cpu_mins_pj", TRUE, a.lim.max_cpu_mins_pj,
        job_cpu_usage_mins >= a.lim.max_cpu_mins_pj, "FAIL_TIMEOUT")

\* A walk that goes on to the root association.
RECURSIVE TimeOutAssocWalkToNull(_, _, _, _)
TimeOutAssocWalkToNull(atab, ap, st, job_cpu_usage_mins) ==
    IF ap = 0 THEN st
    ELSE LET s == TimeOutAssocOne(atab[ap], st, job_cpu_usage_mins)
         IN  IF ~s.rc THEN s
             ELSE TimeOutAssocWalkToNull(atab, atab[ap].parent_assoc_ptr, s,
                                         job_cpu_usage_mins)

\* while (assoc): the job's association is checked, then its parents up
\* to, but not including, assoc_mgr_root_assoc.
RECURSIVE TimeOutAssocWalk(_, _, _, _)
TimeOutAssocWalk(atab, ap, st, job_cpu_usage_mins) ==
    IF ap = 0 THEN st
    ELSE LET s == TimeOutAssocOne(atab[ap], st, job_cpu_usage_mins)
             up == atab[ap].parent_assoc_ptr
         IN  IF ~s.rc \/ up = RootAssoc THEN s
             ELSE TimeOutAssocWalk(atab, up, s, job_cpu_usage_mins)

\* The value returned and the job's state_reason afterwards.
TimeOut(enforce, qtab, atab, parts, jb, now) ==
    IF "LIMITS" \notin enforce \/ "SAFE" \in enforce
    THEN [rc |-> FALSE, reason |-> jb.state_reason, stamped |-> FALSE]
    ELSE LET order == _set_qos_order(qtab, parts, jb)
             job_cpu_usage_mins == JobCpuUsageMins(jb, now)
             st0 == [rc |-> TRUE, reason |-> jb.state_reason,
                     out |-> InitQosLimits]
             st1 == IF order[1] # 0
                    THEN _qos_job_time_out(qtab[order[1]], st0,
                                           job_cpu_usage_mins)
                    ELSE st0
             st2 == IF order[2] # 0
                    THEN _qos_job_time_out(qtab[order[2]], st1,
                                           job_cpu_usage_mins)
                    ELSE st1
             st3 == IF st2.rc
                    THEN TimeOutAssocWalk(atab, jb.assoc_ptr, st2,
                                          job_cpu_usage_mins)
                    ELSE st2
         IN  [rc |-> st3.reason = "FAIL_TIMEOUT", reason |-> st3.reason,
              stamped |-> ~st2.rc]

(***************************************************************************)
(* SpecTimeOut: time-out calls on running jobs.  Each of the three limits  *)
(* may sit on the job's QOS, on the partition's QOS, on the job's          *)
(* association, on the account or on the root, with usage at or below the  *)
(* limit.  Between calls the administrator may lift a limit of a QOS.     *)
(***************************************************************************)
TimeOutQosChoices ==
    [grp_cpu_mins : {2, INFINITE}, grp_wall : {3, INFINITE},
     max_cpu_mins_pj : {4, INFINITE}, flags : {{}, {"PART_QOS"}}]

TimeOutPartQosChoices == [grp_cpu_mins : {1, INFINITE}, grp_wall : {2, INFINITE}]

TimeOutAssocChoices ==
    [own_wall : {2, INFINITE}, own_cpu_mins_pj : {4, INFINITE},
     acct_cpu_mins : {3, INFINITE}, root_wall : {1, INFINITE}]

\* The values of time(NULL) at the calls.
TimeOutNows == {70, 130}

TimeOutEntryReasons == {"WAIT_NO_REASON", "FAIL_TIMEOUT"}

TimeOutJob(j, jq, reason) ==
    [MkJob(((j - 1) % NumUsers) + 1, ((j - 1) % NumUsers) + 1, "acct",
           IF j = 1 THEN jq ELSE 0, 1, 2, 1, 5, 0)
       EXCEPT !.job_state = "RUNNING", !.state_reason = reason]
    @@ [start_time |-> 10, tot_sus_time |-> IF j = 1 THEN 0 ELSE 60]

InitTimeOut ==
    /\ accounting_enforce \in
          {{"ASSOCIATIONS", "LIMITS"}, {"ASSOCIATIONS", "LIMITS", "SAFE"},
           {"ASSOCIATIONS"}}
    /\ \E c1 \in TimeOutQosChoices, c2 \in TimeOutPartQosChoices :
          qos = [q \in QosIds |->
                   IF q = 1
                   THEN [InitQosRec EXCEPT
                           !.flags = c1.flags,
                           !.lim.grp_cpu_mins = c1.grp_cpu_mins,
                           !.lim.grp_wall = c1.grp_wall,
                           !.lim.max_cpu_mins_pj = c1.max_cpu_mins_pj,
                           !.usage.usage_raw = 119,
                           !.usage.grp_used_wall = 180]
                   ELSE [InitQosRec EXCEPT
                           !.lim.grp_cpu_mins = c2.grp_cpu_mins,
                           !.lim.grp_wall = c2.grp_wall,
                           !.usage.usage_raw = 60,
                           !.usage.grp_used_wall = 100]]
    /\ \E c \in TimeOutAssocChoices :
          assoc = [a \in AssocIds |->
                     [InitAssocRec(a) EXCEPT
                        !.lim.grp_wall =
                            IF a \in Users THEN c.own_wall
                            ELSE IF a = RootAssoc THEN c.root_wall
                            ELSE INFINITE,
                        !.lim.max_cpu_mins_pj =
                            IF a \in Users THEN c.own_cpu_mins_pj ELSE INFINITE,
                        !.lim.grp_cpu_mins =
                            IF a = AcctAssoc THEN c.acct_cpu_mins ELSE INFINITE,
                        !.usage.usage_raw = IF a = AcctAssoc THEN 185 ELSE 0,
                        !.usage.grp_used_wall =
                            IF a = 1 THEN 125 ELSE IF a = RootAssoc THEN 90
                            ELSE 0]]
    /\ \E pq \in {0, 2} :
          part = [p \in PartIds |-> [max_time |-> INFINITE, qos_ptr |-> pq]]
    /\ \E jq \in {0, 1}, reason \in TimeOutEntryReasons :
          job = [j \in JobIds |-> TimeOutJob(j, jq, reason)]
    /\ hist = [j \in JobIds |-> InitHist]
    /\ nops = 0
    /\ rt = NoRt
    /\ ret = NoRet

\* The clock does not run backwards: the value of time(NULL) at the last
\* call.
LastNow == IF "now" \in DOMAIN rt THEN rt.now ELSE 0

acct_policy_job_time_out(j, now) ==
    LET r == TimeOut(accounting_enforce, qos, assoc, part, job[j], now)
    IN  /\ now >= LastNow
        /\ job' = [job EXCEPT ![j].state_reason = r.reason]
        /\ ret' = [op |-> "time_out", job |-> j, now |-> now, rc |-> r.rc,
                   entry_reason |-> job[j].state_reason,
                   stamped |-> r.stamped]
        /\ rt' = [stage |-> 0, now |-> now]
        /\ UNCHANGED <<accounting_enforce, qos, assoc, part, hist, nops>>

\* The administrator lifts a limit of a QOS.
LiftQosLimit(q, name) ==
    /\ qos[q].lim[name] # INFINITE
    /\ qos' = [qos EXCEPT ![q].lim[name] = INFINITE]
    /\ ret' = NoRet
    /\ UNCHANGED <<accounting_enforce, assoc, part, job, hist, nops, rt>>

NextTimeOut ==
    \/ \E j \in JobIds, now \in TimeOutNows : acct_policy_job_time_out(j, now)
    \/ \E q \in QosIds, name \in {"grp_cpu_mins", "grp_wall"} : LiftQosLimit(q, name)

SpecTimeOut == InitTimeOut /\ [][NextTimeOut]_vars

\* The last call was a time-out query and nothing has changed since.
TimeOutReturned == ret.op = "time_out"

TimeOutLimitNames == {"grp_cpu_mins", "grp_wall", "max_cpu_mins_pj"}

\* What a record's limit n is compared with: the record's CPU minutes, its
\* wall minutes, or the CPU minutes job j has run for at time now.
TimeOutUsed(rec, n, j, now) ==
    IF n = "grp_cpu_mins" THEN rec.usage.usage_raw \div 60
    ELSE IF n = "grp_wall" THEN rec.usage.grp_used_wall \div 60
    ELSE ((now - job[j].start_time - job[j].tot_sus_time) \div 60)
            * job[j].total_cpus

\* The associations of job j's chain, the root left out.
TimeOutAssocSet(j) ==
    LET chain == AssocChain(assoc, job[j].assoc_ptr)
    IN  {chain[i] : i \in 1..Len(chain)} \ {RootAssoc}

\* One of the checked limits is met or exceeded: limit n of the QOS that
\* supplies it for the job, or, when no QOS supplies it, limit n of an
\* association of the chain.
TimeOutLimitMet(j, now) ==
    \E n \in TimeOutLimitNames :
       LET q == LimitQos(j, n)
       IN  IF q # 0
           THEN TimeOutUsed(qos[q], n, j, now) >= qos[q].lim[n]
           ELSE \E a \in TimeOutAssocSet(j) :
                   /\ assoc[a].lim[n] # INFINITE
                   /\ TimeOutUsed(assoc[a], n, j, now) >= assoc[a].lim[n]

TimeOutEnabled == LimitsEnforced /\ "SAFE" \notin accounting_enforce

\* C20: job_time_out returns true iff the job must be killed.  With LIMITS
\* on and SAFE off it returns true exactly when one of the checked limits
\* (group CPU minutes, group wall, CPU minutes per job, on the effective
\* QOS or on an association of the chain) is met or exceeded during the
\* call; with SAFE on or LIMITS off it returns false and leaves
\* state_reason as it was on entry.
C20_TimeOutIffLimitMet ==
    TimeOutReturned =>
        IF TimeOutEnabled
        THEN ret.rc <=> TimeOutLimitMet(ret.job, ret.now)
        ELSE ~ret.rc /\ job[ret.job].state_reason = ret.entry_reason

\* What the calls do in every case: the result is true exactly when a
\* checked limit is met or state_reason was FAIL_TIMEOUT on entry, a met
\* limit leaves FAIL_TIMEOUT behind, and nothing else changes state_reason.
TimeOutResultAndReason ==
    TimeOutReturned =>
        IF TimeOutEnabled
        THEN /\ ret.rc <=> \/ TimeOutLimitMet(ret.job, ret.now)
                           \/ ret.entry_reason = "FAIL_TIMEOUT"
             /\ job[ret.job].state_reason =
                   IF TimeOutLimitMet(ret.job, ret.now) THEN "FAIL_TIMEOUT"
                   ELSE ret.entry_reason
        ELSE ~ret.rc /\ job[ret.job].state_reason = ret.entry_reason

\* A call with no checked limit met returned true: the job carried
\* FAIL_TIMEOUT from an earlier call whose limit has been lifted since.
TimeOutStaleReasonKills ==
    /\ TimeOutReturned /\ TimeOutEnabled
    /\ ~TimeOutLimitMet(ret.job, ret.now)
    /\ ret.rc

\* A call under safe limits returned false for a job whose limit is met.
TimeOutSafeSkips ==
    /\ TimeOutReturned /\ "SAFE" \in accounting_enforce
    /\ TimeOutLimitMet(ret.job, ret.now)
    /\ ~ret.rc /\ ret.entry_reason = "FAIL_TIMEOUT"

(***************************************************************************)
(* acct_policy_job_runnable_pre_select(job_ptr) and                        *)
(* _qos_job_runnable_pre_select, with the record [rc, reason, out] of the  *)
(* post-select checks.                                                     *)
(***************************************************************************)
_qos_job_runnable_pre_select(jb, q, st) ==
    LET used_limits == UsedLimitsOf(q, jb.user_id)
    IN  QosCheck(
            QosCheck(
                QosCheck(
                    QosCheck(st, q, "grp_jobs", TRUE,
                             q.usage.grp_used_jobs >= q.lim.grp_jobs,
                             "WAIT_QOS_GRP_JOB"),
                    q, "grp_wall", TRUE,
                    WallMins(q.usage) >= q.lim.grp_wall, "WAIT_QOS_GRP_WALL"),
                q, "max_jobs_pu", TRUE,
                used_limits.jobs >= q.lim.max_jobs_pu,
                "WAIT_QOS_MAX_JOB_PER_USER"),
            q, "max_wall_pj", jb.limit_set.time # ADMIN_SET_LIMIT,
            jb.time_limit # NO_VAL /\ jb.time_limit > q.lim.max_wall_pj,
            "WAIT_QOS_MAX_WALL_PER_JOB")

PreSelectAssocGrp(a, st) ==
    AssocCheck(
        AssocCheck(st, "grp_jobs", TRUE, a.lim.grp_jobs,
                   a.usage.used_jobs >= a.lim.grp_jobs, "WAIT_ASSOC_GRP_JOB"),
        "grp_wall", TRUE, a.lim.grp_wall,
        WallMins(a.usage) >= a.lim.grp_wall, "WAIT_ASSOC_GRP_WALL")

PreSelectAssocOne(jb, a, parent, st) ==
    IF parent THEN PreSelectAssocGrp(a, st)
    ELSE AssocCheck(
            AssocCheck(PreSelectAssocGrp(a, st), "max_jobs_pu", TRUE,
                       a.lim.max_jobs, a.usage.used_jobs >= a.lim.max_jobs,
                       "WAIT_ASSOC_MAX_JOBS"),
            "max_wall_pj", jb.limit_set.time # ADMIN_SET_LIMIT,
            a.lim.max_wall_pj,
            jb.time_limit # NO_VAL /\ jb.time_limit > a.lim.max_wall_pj,
            "WAIT_ASSOC_MAX_WALL_PER_JOB")

RECURSIVE PreSelectAssocWalk(_, _, _, _, _)
PreSelectAssocWalk(jb, atab, ap, parent, st) ==
    IF ap = 0 \/ ~st.rc THEN st
    ELSE PreSelectAssocWalk(jb, atab, atab[ap].parent_assoc_ptr, TRUE,
                            PreSelectAssocOne(jb, atab[ap], parent, st))

\* The value returned, the job record afterwards and the QOS the checks
\* were called on.
PreSelect(enforce, qtab, atab, parts, jb) ==
    LET valid == _valid_job_assoc(atab, jb)
        bound == valid.job
    IN  IF enforce = {} THEN [rc |-> TRUE, job |-> jb, calls |-> << >>]
        ELSE IF ~valid.ok
        THEN [rc |-> FALSE, job |-> [jb EXCEPT !.state_reason = "FAIL_ACCOUNT"],
              calls |-> << >>]
        ELSE IF "LIMITS" \notin enforce
        THEN [rc |-> TRUE, job |-> bound, calls |-> << >>]
        ELSE LET reason0 == IF ~acct_policy_job_runnable_state(bound)
                            THEN "WAIT_NO_REASON" ELSE bound.state_reason
                 order == _set_qos_order(qtab, parts, bound)
                 st0 == [rc |-> TRUE, reason |-> reason0, out |-> InitQosLimits]
                 st1 == IF order[1] # 0
                        THEN _qos_job_runnable_pre_select(bound, qtab[order[1]], st0)
                        ELSE st0
                 st2 == IF order[2] # 0
                        THEN _qos_job_runnable_pre_select(bound, qtab[order[2]], st1)
                        ELSE st1
                 st3 == PreSelectAssocWalk(bound, atab, bound.assoc_ptr, FALSE, st2)
             IN  [rc |-> st3.rc,
                  job |-> [bound EXCEPT !.state_reason = st3.reason],
                  calls |-> QosCalled(order, st1.rc)]

acct_policy_job_runnable_pre_select(j) ==
    LET r == PreSelect(accounting_enforce, qos, assoc, part, job[j])
    IN  /\ job' = [job EXCEPT ![j] = r.job]
        /\ qos' = QosAfterQueries(qos, r.calls, job[j].user_id)
        /\ ret' = [op |-> "pre_select", job |-> j, rc |-> r.rc,
                   reason |-> r.job.state_reason,
                   entry_reason |-> job[j].state_reason,
                   scratch |-> ScratchLive(qos, r.calls, job[j].user_id)]
        /\ rt' = NoRt
        /\ UNCHANGED <<accounting_enforce, assoc, part, hist, nops>>

\* acct_policy_job_runnable_state(job_ptr) called on job j.
JobRunnableState(j) ==
    /\ ret' = [op |-> "job_runnable_state", job |-> j,
               rc |-> acct_policy_job_runnable_state(job[j])]
    /\ rt' = NoRt
    /\ UNCHANGED <<accounting_enforce, qos, assoc, part, job, hist, nops>>

(***************************************************************************)
(* SpecQuery: the six queries between the lifecycle calls.  Two jobs of    *)
(* different users share a QOS with per-user and group limits low enough   *)
(* to hold the second job; the partition has a QOS or not, usage is below  *)
(* or at the group CPU-minutes limit, and the pointer of the last job to   *)
(* its association is bound or not.  A job record carries the fields of    *)
(* its submission (validate) and of its run (time_out) as well.            *)
(***************************************************************************)
QueryJob(j, stale) ==
    [MkJob(((j - 1) % NumUsers) + 1, ((j - 1) % NumUsers) + 1, "acct", 1, 1,
           2, 1, 3, 0)
       EXCEPT !.assoc_ptr = IF stale /\ j = NumJobs THEN 0 ELSE @]
    @@ [tres_req_cpu |-> 2, tres_req_mem |-> 0, min_nodes |-> 1,
        max_nodes |-> 1, job_cnt |-> 1, reason_given |-> TRUE,
        update_call |-> FALSE, start_time |-> 10, tot_sus_time |-> 0]

QueryProposals == {<<1, 2, 0>>, <<2, 4, 0>>}

\* The value of time(NULL) at the time-out queries.
QueryNows == {130}

QueryTables ==
    /\ accounting_enforce \in {{"ASSOCIATIONS", "LIMITS"}, {"ASSOCIATIONS"}}
    /\ \E raw \in {0, 120} :
          qos = [q \in QosIds |->
                   IF q = 1
                   THEN [InitQosRec EXCEPT
                           !.lim.max_jobs_pu = 1, !.lim.max_cpus_pu = 3,
                           !.lim.grp_cpu_mins = 2, !.lim.grp_jobs = 1,
                           !.usage.usage_raw = raw]
                   ELSE [InitQosRec EXCEPT
                           !.lim.grp_nodes = 1, !.lim.max_nodes_pu = 1]]
    /\ assoc = [a \in AssocIds |->
                  [InitAssocRec(a) EXCEPT
                     !.lim.max_jobs = IF a \in Users THEN 1 ELSE INFINITE,
                     !.lim.grp_wall = IF a = AcctAssoc THEN 2 ELSE INFINITE]]
    /\ \E pq \in {0, 2} :
          part = [p \in PartIds |-> [max_time |-> INFINITE, qos_ptr |-> pq]]
    /\ \E stale \in BOOLEAN : job = [j \in JobIds |-> QueryJob(j, stale)]
    /\ hist = [j \in JobIds |-> InitHist]
    /\ nops = 0

InitQuery ==
    /\ QueryTables
    /\ rt = NoRt
    /\ ret = NoRet

NextQuery ==
    \/ \E j \in JobIds :
          hist[j].add = 0 /\ ~Begun(j) /\ acct_policy_add_job_submit(j)
    \/ \E j \in JobIds : ~Begun(j) /\ acct_policy_job_begin(j)
    \/ \E j \in JobIds : Running(j) /\ acct_policy_job_fini(j)
    \/ \E j \in JobIds : acct_policy_validate(j)
    \/ \E j \in JobIds : JobRunnableState(j)
    \/ \E j \in JobIds : ~Begun(j) /\ acct_policy_job_runnable_pre_select(j)
    \/ \E j \in JobIds, p \in QueryProposals :
          ~Begun(j) /\ acct_policy_job_runnable_post_select(j, p[1], p[2], p[3])
    \/ \E j \in JobIds : Running(j) /\ \E now \in QueryNows : acct_policy_job_time_out(j, now)
    \/ \E j \in JobIds : acct_policy_get_max_nodes(j)

SpecQuery == InitQuery /\ [][NextQuery]_vars

QueryOps ==
    {"validate", "job_runnable_state", "pre_select", "post_select",
     "time_out", "get_max_nodes"}

\* A step that is a call of one of the queries (a lifecycle call adds to
\* hist and leaves ret alone).
QueryStep == hist' = hist /\ ret'.op \in QueryOps

\* The user_limit_list of QOS q after the step holds the entries it held
\* before, in place.
ListKeepsEntries(q) ==
    LET old == qos[q].usage.user_limit_list
        new == qos'[q].usage.user_limit_list
    IN  /\ Len(new) >= Len(old)
        /\ \A i \in 1..Len(old) : new[i].uid = old[i].uid

ListGrows(q) ==
    Len(qos'[q].usage.user_limit_list) > Len(qos[q].usage.user_limit_list)

\* C19: the queries validate, job_runnable_state, pre_select, post_select,
\* time_out and get_max_nodes leave every usage counter of every QOS and
\* association and every per-user list as they were; the per-user record a
\* query makes for a user without an entry is never put on the QOS's list
\* and is released before the query returns; only a call of the usage
\* adjuster adds an entry to a list, and no step removes one.
C19_QueriesLeaveUsageAlone ==
    [][/\ QueryStep =>
             /\ \A q \in QosIds : qos'[q].usage = qos[q].usage
             /\ \A a \in AssocIds : assoc'[a].usage = assoc[a].usage
             /\ ret'.op \in {"pre_select", "post_select"} => ret'.scratch = 0
       /\ \A q \in QosIds :
             /\ ListKeepsEntries(q)
             /\ ListGrows(q) => hist' # hist]_vars

\* The user of job j has no entry on the list of a QOS of the job's pair
\* that holds entries of other users.
NeedsScratch(j) ==
    \E q \in JobQosSet(j) :
       /\ qos[q].usage.user_limit_list # << >>
       /\ _get_used_limits_for_user(qos[q].usage.user_limit_list,
                                    job[j].user_id) = 0

\* A pre-select query has held a job whose user had no entry on the list
\* of the job's QOS, on which another user's job is running.
C19_Witness ==
    /\ ret.op = "pre_select" /\ ~ret.rc
    /\ ret.reason = "WAIT_QOS_GRP_JOB"
    /\ LimitsEnforced /\ NeedsScratch(ret.job)
    /\ \E i \in JobIds : Running(i) /\ job[i].user_id # job[ret.job].user_id

(***************************************************************************)
(* acct_policy_update_pending_job(job_ptr): the job descriptor it builds   *)
(* for acct_policy_validate and what it does with the answer r.            *)
(***************************************************************************)
PendingJobDesc(jb) ==
    [user_id |-> NO_VAL, assoc_ptr |-> jb.assoc_ptr, qos_ptr |-> jb.qos_ptr,
     part_ptr |-> jb.part_ptr, tres_req_cpu |-> jb.tres_req_cpu,
     tres_req_mem |-> jb.tres_req_mem, min_nodes |-> jb.min_nodes,
     max_nodes |-> NO_VAL,
     time_limit |-> IF /\ jb.limit_set.time # ADMIN_SET_LIMIT
                       /\ jb.time_limit # NO_VAL /\ jb.limit_set.time = 0
                    THEN jb.time_limit ELSE NO_VAL,
     job_cnt |-> 1, reason_given |-> TRUE, update_call |-> FALSE,
     limit_set |-> jb.limit_set]

UpdatePendingReturnsEarly(enforce, jb) ==
    enforce = {} \/ jb.job_state # "PENDING" \/ "LIMITS" \notin enforce

\* The same without the notice to accounting when the time limit is reset.
UpdatePendingJobQuietReset(jb, r) ==
    IF ~r.rc
    THEN [failed |-> TRUE, job |-> [jb EXCEPT !.state_reason = r.reason],
          update_accounting |-> FALSE]
    ELSE IF r.limit_set_time # ADMIN_SET_LIMIT
    THEN [failed |-> FALSE,
          job |-> [jb EXCEPT !.time_limit = r.time_limit,
                             !.limit_set.time = r.limit_set_time],
          update_accounting |-> r.time_limit # NO_VAL /\ jb.time_limit # r.time_limit]
    ELSE [failed |-> FALSE, job |-> jb, update_accounting |-> FALSE]

\* Whether it returns SLURM_ERROR, the job afterwards and update_accounting.
UpdatePendingJob(jb, r) ==
    IF ~r.rc
    THEN [failed |-> TRUE, job |-> [jb EXCEPT !.state_reason = r.reason],
          update_accounting |-> FALSE]
    ELSE IF r.limit_set_time = 0 /\ jb.limit_set.time = 1
    THEN [failed |-> FALSE,
          job |-> [jb EXCEPT !.time_limit = NO_VAL, !.limit_set.time = 0],
          update_accounting |-> TRUE]
    ELSE IF r.limit_set_time # ADMIN_SET_LIMIT
    THEN [failed |-> FALSE,
          job |-> [jb EXCEPT !.time_limit = r.time_limit,
                             !.limit_set.time = r.limit_set_time],
          update_accounting |-> jb.time_limit # r.time_limit]
    ELSE [failed |-> FALSE, job |-> jb, update_accounting |-> FALSE]

(***************************************************************************)
(* The operations as threads see them.  Thread t works on job t; the       *)
(* threads share the tables.  rt.th[t] is the thread's position: the       *)
(* operation op it is in, its program counter pc, the modes in which it    *)
(* holds the axes of the association-manager lock, the association ap its  *)
(* walk has come to, what it has read so far (obs) and what it is going to *)
(* return (res).                                                           *)
(*                                                                         *)
(* pc runs: idle, entry (the checks before assoc_mgr_lock), hook (a call   *)
(* of priority_g_job_end or jobacct_storage_job_start_direct), lock_assoc, *)
(* lock_qos, lock_tres (inside assoc_mgr_lock, one axis after the other),  *)
(* w_qos, w_assoc (writes of the adjuster and of alter_job), r_qos,        *)
(* r_assoc (the reads of a query), unlock, return.                         *)
(***************************************************************************)
LifecycleOps ==
    {"add_job_submit", "remove_job_submit", "job_begin", "job_fini"}

WriterOps == LifecycleOps \cup {"alter_job"}

ReaderOps ==
    {"validate", "pre_select", "post_select", "time_out", "get_max_nodes",
     "update_pending_job"}

AdjustType(op) ==
    CASE op = "add_job_submit" -> "ADD_SUBMIT"
      [] op = "remove_job_submit" -> "REM_SUBMIT"
      [] op = "job_begin" -> "JOB_BEGIN"
      [] op = "job_fini" -> "JOB_FINI"

NoLock == [assoc |-> "NO", qos |-> "NO", tres |-> "NO"]

\* The adjuster's locks taken in read mode.
LocksOfAllRead(op) == [assoc |-> "READ", qos |-> "READ", tres |-> "NO"]

\* assoc_mgr_lock_t locks of each operation (update_pending_job locks
\* through acct_policy_validate).
LocksOf(op) ==
    IF op \in WriterOps
    THEN [assoc |-> "WRITE", qos |-> "WRITE", tres |-> "NO"]
    ELSE IF op \in {"validate", "update_pending_job"}
    THEN [assoc |-> "READ", qos |-> "READ", tres |-> "READ"]
    ELSE [assoc |-> "READ", qos |-> "READ", tres |-> "NO"]

IdleThread ==
    [op |-> "none", pc |-> "idle", held |-> NoLock, ap |-> 0, obs |-> << >>,
     res |-> << >>]

\* The new time limit the job update path hands to acct_policy_alter_job.
NewTimeLimit(jb) == IF jb.time_limit = 3 THEN 5 ELSE 3

\* assoc_mgr_lock of one axis in a mode: granted when no other thread
\* holds the axis in a mode that excludes it.
CanLock(t, axis, mode) ==
    \/ mode = "NO"
    \/ \A u \in JobIds \ {t} :
          \/ rt.th[u].held[axis] = "NO"
          \/ rt.th[u].held[axis] = "READ" /\ mode = "READ"

\* The checks of the adjuster alone, without the test of end_time_exp.
ReturnsBeforeLockNoFiniGuard(op, enforce, atab, jb) ==
    "LIMITS" \notin enforce \/ ~_valid_job_assoc(atab, jb).ok

\* The checks of an operation before it locks: TRUE when it returns there.
ReturnsBeforeLock(op, enforce, atab, jb) ==
    CASE op \in LifecycleOps ->
            \/ "LIMITS" \notin enforce \/ ~_valid_job_assoc(atab, jb).ok
            \/ op = "job_fini" /\ jb.end_time_exp = NO_VAL
      [] op = "alter_job" ->
            \/ jb.job_state # "RUNNING"
            \/ "LIMITS" \notin enforce \/ ~_valid_job_assoc(atab, jb).ok
      [] op = "validate" -> jb.assoc_ptr = 0
      [] op = "update_pending_job" ->
            UpdatePendingReturnsEarly(enforce, jb) \/ jb.assoc_ptr = 0
      [] op = "pre_select" ->
            \/ enforce = {} \/ ~_valid_job_assoc(atab, jb).ok
            \/ "LIMITS" \notin enforce
      [] op = "post_select" -> enforce = {} \/ "LIMITS" \notin enforce
      [] op = "get_max_nodes" -> "LIMITS" \notin enforce
      [] op = "time_out" -> "LIMITS" \notin enforce \/ "SAFE" \in enforce

\* Whether the checks before the lock get as far as _valid_job_assoc.
CallsValidJobAssoc(op, enforce, jb) ==
    CASE op \in LifecycleOps ->
            /\ "LIMITS" \in enforce
            /\ ~(op = "job_fini" /\ jb.end_time_exp = NO_VAL)
      [] op = "alter_job" -> jb.job_state = "RUNNING" /\ "LIMITS" \in enforce
      [] op = "pre_select" -> enforce # {}
      [] OTHER -> FALSE

\* The job after the checks before the lock.
JobBeforeLock(op, enforce, atab, jb) ==
    IF ~CallsValidJobAssoc(op, enforce, jb) THEN jb
    ELSE IF ~_valid_job_assoc(atab, jb).ok
    THEN IF op = "pre_select" THEN [jb EXCEPT !.state_reason = "FAIL_ACCOUNT"]
         ELSE jb
    ELSE IF op = "pre_select" /\ "LIMITS" \in enforce
            /\ ~acct_policy_job_runnable_state(jb)
    THEN [_valid_job_assoc(atab, jb).job EXCEPT !.state_reason = "WAIT_NO_REASON"]
    ELSE _valid_job_assoc(atab, jb).job

\* Where an operation goes after its checks before the lock.
AfterEntry(op, early) ==
    IF early THEN "return"
    ELSE IF op = "job_fini" THEN "hook" ELSE "lock_assoc"

\* A failed QOS check of a query returns without unlocking.
AfterQosChecksNoUnlock(failed) == IF failed THEN "return" ELSE "r_assoc"

\* Where a query goes after the checks of the QOS pair: goto end_it
\* (job_failed in time_out) on a failure, else on to the associations.
AfterQosChecks(failed) == IF failed THEN "unlock" ELSE "r_assoc"

\* Where an operation goes after assoc_mgr_unlock.
AfterUnlock(op, res) ==
    IF op = "update_pending_job" /\ res.update_accounting THEN "hook"
    ELSE "return"

\* The association limits all unset: what is left of a query's checks is
\* the checks of the QOS pair.
NoAssocLimits(atab) == [a \in AssocIds |-> [atab[a] EXCEPT !.lim = InitAssocLimits]]

\* The outcome of a query whose answer is r: whether it holds, denies or
\* times out the job, the job afterwards, and update_accounting of
\* acct_policy_update_pending_job.
ValidateResult(jb, r) ==
    [failed |-> ~r.rc, job |-> jb, update_accounting |-> FALSE]

PreSelectResult(r) ==
    [failed |-> ~r.rc, job |-> r.job, update_accounting |-> FALSE]

PostSelectResult(jb, r) ==
    [failed |-> ~r.rc, job |-> [jb EXCEPT !.state_reason = r.reason],
     update_accounting |-> FALSE]

TimeOutResult(jb, r) ==
    [failed |-> r.rc, job |-> [jb EXCEPT !.state_reason = r.reason],
     update_accounting |-> FALSE]

\* The outcome of query op on job jb with the tables given.
ReaderResult(op, enforce, qtab, atab, parts, jb) ==
    CASE op = "validate" ->
            ValidateResult(jb, Validate(qtab, atab, parts, jb))
      [] op = "update_pending_job" ->
            UpdatePendingJob(jb, Validate(qtab, atab, parts, PendingJobDesc(jb)))
      [] op = "pre_select" ->
            PreSelectResult(PreSelect(enforce, qtab, atab, parts, jb))
      [] op = "post_select" ->
            PostSelectResult(jb, PostSelect(enforce, qtab, atab, parts, jb, 1, 2, 0))
      [] op = "time_out" ->
            TimeOutResult(jb, TimeOut(enforce, qtab, atab, parts, jb, 130))
      [] op = "get_max_nodes" ->
            [failed |-> FALSE, job |-> jb, update_accounting |-> FALSE]

\* A check of the QOS pair fails.
QosChecksFail(op, enforce, qtab, atab, parts, jb) ==
    ReaderResult(op, enforce, qtab, NoAssocLimits(atab), parts,
                 [jb EXCEPT !.state_reason = "WAIT_NO_REASON"]).failed

\* The counters a query reads of a QOS and of an association.
QosCounters(q) ==
    <<q.usage.grp_used_jobs, q.usage.grp_used_submit_jobs,
      q.usage.grp_used_cpus, q.usage.grp_used_nodes, q.usage.grp_used_mem,
      q.usage.grp_used_cpu_run_secs>>

AssocCounters(a) ==
    <<a.usage.used_jobs, a.usage.used_submit_jobs, a.usage.grp_used_cpus,
      a.usage.grp_used_nodes, a.usage.grp_used_mem,
      a.usage.grp_used_cpu_run_secs>>

\* What the caller of an operation does to the job when it returns.
CallerEffect(op, jb) ==
    CASE op = "job_begin" -> [jb EXCEPT !.job_state = "RUNNING", !.end_time_exp = 0]
      [] op = "job_fini" -> [jb EXCEPT !.job_state = "COMPLETE"]
      [] op = "alter_job" -> [jb EXCEPT !.time_limit = NewTimeLimit(jb)]
      [] OTHER -> jb

\* The states of a job in which its thread calls an operation.
CalledWhen(op, jb) ==
    CASE op \in {"add_job_submit", "job_begin", "pre_select", "post_select",
                 "update_pending_job", "validate"} -> jb.job_state = "PENDING"
      [] op \in {"job_fini", "time_out", "alter_job"} -> jb.job_state = "RUNNING"
      [] OTHER -> TRUE

Call(t, op) ==
    /\ rt.th[t].pc = "idle"
    /\ CalledWhen(op, job[t])
    /\ nops < MaxOps
    /\ nops' = nops + 1
    /\ rt' = [rt EXCEPT !.th[t] = [IdleThread EXCEPT !.op = op, !.pc = "entry",
                                                    !.held = rt.th[t].held]]
    /\ UNCHANGED <<accounting_enforce, qos, assoc, part, job, hist, ret>>

\* The checks before the lock.  _valid_job_assoc looks a stale association
\* up through assoc_mgr_fill_in_assoc, which takes the lock of the
\* association axis in read mode for the time of the lookup.
Entry(t) ==
    LET th == rt.th[t]
        early == ReturnsBeforeLock(th.op, accounting_enforce, assoc, job[t])
    IN  /\ th.pc = "entry"
        /\ (CallsValidJobAssoc(th.op, accounting_enforce, job[t])
              /\ AssocPtrStale(assoc, job[t])) => CanLock(t, "assoc", "READ")
        /\ job' = [job EXCEPT ![t] = JobBeforeLock(th.op, accounting_enforce,
                                                   assoc, job[t])]
        /\ rt' = [rt EXCEPT
                    !.th[t].pc = AfterEntry(th.op, early),
                    !.th[t].res =
                       [failed |-> early /\ th.op \in {"validate", "update_pending_job", "pre_select"}
                                         /\ accounting_enforce # {}
                                         /\ ~(th.op = "update_pending_job"
                                              /\ UpdatePendingReturnsEarly(accounting_enforce, job[t]))
                                         /\ ~(th.op = "pre_select"
                                              /\ _valid_job_assoc(assoc, job[t]).ok),
                        update_accounting |-> FALSE]]
        /\ UNCHANGED <<accounting_enforce, qos, assoc, part, hist, nops, ret>>

\* priority_g_job_end before the lock of JOB_FINI, or
\* jobacct_storage_job_start_direct at the end of update_pending_job.
Hook(t) ==
    /\ rt.th[t].pc = "hook"
    /\ rt' = [rt EXCEPT !.th[t].pc = IF rt.th[t].op = "job_fini"
                                     THEN "lock_assoc" ELSE "return"]
    /\ UNCHANGED <<accounting_enforce, qos, assoc, part, job, hist, nops, ret>>

\* assoc_mgr_lock(&locks), one axis at a step.
LockAxis(t, axis) ==
    LET th == rt.th[t]
        mode == LocksOf(th.op)[axis]
        body == IF th.op \in WriterOps THEN "w_qos" ELSE "r_qos"
    IN  /\ th.pc = "lock_" \o axis
        /\ CanLock(t, axis, mode)
        /\ rt' = [rt EXCEPT
                    !.th[t].held[axis] = mode,
                    !.th[t].pc =
                       IF axis = "assoc" THEN "lock_qos"
                       ELSE IF axis = "qos" /\ LocksOf(th.op).tres # "NO"
                       THEN "lock_tres" ELSE body]
        /\ UNCHANGED <<accounting_enforce, qos, assoc, part, job, hist, nops, ret>>

\* The writes to the QOS pair.
WriteQos(t) ==
    LET th == rt.th[t]
    IN  /\ th.pc = "w_qos"
        /\ qos' = IF th.op = "alter_job"
                  THEN AlteredQos(t, NewTimeLimit(job[t]))
                  ELSE AdjustedQos(AdjustType(th.op), t)
        /\ rt' = [rt EXCEPT !.th[t].pc = "w_assoc",
                            !.th[t].ap = job[t].assoc_ptr]
        /\ UNCHANGED <<accounting_enforce, assoc, part, job, hist, nops, ret>>

\* The writes to one association of the walk.
WriteAssoc(t) ==
    LET th == rt.th[t]
        jb == job[t]
        up == assoc[th.ap].parent_assoc_ptr
    IN  /\ th.pc = "w_assoc"
        /\ assoc' =
              IF th.op = "alter_job"
              THEN [assoc EXCEPT ![th.ap].usage.grp_used_cpu_run_secs =
                      AlterCpuRunSecs(@, CpuRunSecs(jb.total_cpus, jb.time_limit),
                                      CpuRunSecs(jb.total_cpus, NewTimeLimit(jb)))]
              ELSE [assoc EXCEPT ![th.ap] =
                      AssocAdjustOne(
                         AdjustType(th.op), jb, assoc[th.ap], jb.node_cnt,
                         IF th.op = "job_begin"
                         THEN CpuRunSecs(jb.total_cpus, jb.time_limit) ELSE 0,
                         JobMemory(jb.pn_min_memory, jb.total_cpus, jb.node_cnt))]
        /\ rt' = [rt EXCEPT !.th[t].ap = up,
                            !.th[t].pc = IF up = 0 THEN "unlock" ELSE "w_assoc"]
        /\ UNCHANGED <<accounting_enforce, qos, part, job, hist, nops, ret>>

\* The checks of a query against the QOS pair, r being the outcome of the
\* query when one of them fails.
ReadQosOutcome(t, failed, r) ==
    /\ job' = IF failed THEN [job EXCEPT ![t] = r.job] ELSE job
    /\ rt' = [rt EXCEPT
                !.th[t].pc = AfterQosChecks(failed),
                !.th[t].obs = <<QosCounters(qos[job[t].qos_ptr])>>,
                !.th[t].res = IF failed
                              THEN [failed |-> TRUE, update_accounting |-> FALSE]
                              ELSE @]

ReadQos(t) ==
    /\ rt.th[t].pc = "r_qos"
    /\ ReadQosOutcome(t, QosChecksFail(rt.th[t].op, accounting_enforce, qos, assoc, part, job[t]), ReaderResult(rt.th[t].op, accounting_enforce, qos, assoc, part, job[t]))
    /\ UNCHANGED <<accounting_enforce, qos, assoc, part, hist, nops, ret>>

\* The checks of a query against the associations, r being its outcome.
ReadAssocOutcome(t, r) ==
    /\ job' = [job EXCEPT ![t] = r.job]
    /\ rt' = [rt EXCEPT
                !.th[t].pc = "unlock",
                !.th[t].obs = Append(@, AssocCounters(assoc[AcctAssoc])),
                !.th[t].res = [failed |-> r.failed,
                               update_accounting |-> r.update_accounting]]

ReadAssoc(t) ==
    /\ rt.th[t].pc = "r_assoc"
    /\ ReadAssocOutcome(t, ReaderResult(rt.th[t].op, accounting_enforce, qos, assoc, part, job[t]))
    /\ UNCHANGED <<accounting_enforce, qos, assoc, part, hist, nops, ret>>

\* assoc_mgr_unlock(&locks).
Unlock(t) ==
    /\ rt.th[t].pc = "unlock"
    /\ rt' = [rt EXCEPT !.th[t].held = NoLock,
                        !.th[t].pc = AfterUnlock(rt.th[t].op, rt.th[t].res)]
    /\ UNCHANGED <<accounting_enforce, qos, assoc, part, job, hist, nops, ret>>

Return(t) ==
    LET th == rt.th[t]
    IN  /\ th.pc = "return"
        /\ job' = [job EXCEPT ![t] = CallerEffect(th.op, job[t])]
        /\ ret' = [op |-> th.op, job |-> t,
                   rc |-> IF th.op \in WriterOps THEN TRUE ELSE ~th.res.failed]
        /\ rt' = [rt EXCEPT !.th[t] = [IdleThread EXCEPT !.held = th.held]]
        /\ UNCHANGED <<accounting_enforce, qos, assoc, part, hist, nops>>

\* The limits and the jobs of QueryTables with LIMITS enforced, no
\* partition QOS and no raw usage; the time limit of job 1 was set from a
\* limit.
InitLock ==
    /\ accounting_enforce = {"ASSOCIATIONS", "LIMITS"}
    /\ qos = [q \in QosIds |->
                IF q = 1
                THEN [InitQosRec EXCEPT
                        !.lim.max_jobs_pu = 1, !.lim.max_cpus_pu = 3,
                        !.lim.grp_cpu_mins = 2, !.lim.grp_jobs = 1]
                ELSE [InitQosRec EXCEPT
                        !.lim.grp_nodes = 1, !.lim.max_nodes_pu = 1]]
    /\ assoc = [a \in AssocIds |->
                  [InitAssocRec(a) EXCEPT
                     !.lim.max_jobs = IF a \in Users THEN 1 ELSE INFINITE,
                     !.lim.grp_wall = IF a = AcctAssoc THEN 2 ELSE INFINITE]]
    /\ part = [p \in PartIds |-> [max_time |-> INFINITE, qos_ptr |-> 0]]
    /\ \E stale \in BOOLEAN :
          job = [j \in JobIds |->
                   [QueryJob(j, stale) EXCEPT
                      !.limit_set.time = IF j = 1 THEN 1 ELSE 0]]
    /\ hist = [j \in JobIds |-> InitHist]
    /\ nops = 0
    /\ rt = [stage |-> 0, th |-> [t \in JobIds |-> IdleThread]]
    /\ ret = NoRet

NextLock ==
    \/ \E t \in JobIds, op \in WriterOps \cup ReaderOps : Call(t, op)
    \/ \E t \in JobIds : Entry(t)
    \/ \E t \in JobIds : Hook(t)
    \/ \E t \in JobIds, axis \in {"assoc", "qos", "tres"} : LockAxis(t, axis)
    \/ \E t \in JobIds : WriteQos(t)
    \/ \E t \in JobIds : WriteAssoc(t)
    \/ \E t \in JobIds : ReadQos(t)
    \/ \E t \in JobIds : ReadAssoc(t)
    \/ \E t \in JobIds : Unlock(t)
    \/ \E t \in JobIds : Return(t)

SpecLock == InitLock /\ [][NextLock]_vars

\* Thread t holds the association and the QOS axis at least in mode m.
HoldsBoth(t, modes) ==
    rt.th[t].held.assoc \in modes /\ rt.th[t].held.qos \in modes

\* Thread t has written part of a lifecycle delta and not yet all of it.
MidDelta(t) == rt.th[t].pc = "w_assoc"

Reading(t) == rt.th[t].pc \in {"r_qos", "r_assoc"}

\* C17: lock discipline.  A thread about to write usage counters or a
\* per-user list (the adjuster, alter_job) holds the association-manager
\* lock in write mode on assoc and qos; a thread about to read them
\* (validate, pre_select, post_select, time_out, get_max_nodes) holds it at
\* least in read mode on both; so no query reads while a lifecycle delta is
\* partly applied, and the counters a query has read of the QOS and of the
\* account go together.
C17_LockDiscipline ==
    \A t \in JobIds :
       /\ rt.th[t].pc \in {"w_qos", "w_assoc"} => HoldsBoth(t, {"WRITE"})
       /\ Reading(t) => HoldsBoth(t, {"READ", "WRITE"})
       /\ Reading(t) => \A u \in JobIds \ {t} : ~MidDelta(u)
       /\ Len(rt.th[t].obs) = 2 => rt.th[t].obs[1] = rt.th[t].obs[2]

\* A lifecycle call has written the QOS and the job's own association and
\* not yet the account, while a query that has been called waits for the
\* lock.
C17_Witness ==
    \E t, u \in JobIds :
       /\ rt.th[t].pc = "w_assoc" /\ rt.th[t].ap = AcctAssoc
       /\ rt.th[t].op = "job_begin"
       /\ QosCounters(qos[1]) # AssocCounters(assoc[AcctAssoc])
       /\ rt.th[u].pc = "lock_assoc" /\ rt.th[u].op = "pre_select"

\* C18: no operation calls assoc_mgr_lock while it holds the lock, every
\* operation that takes it has released it when it returns, on the paths
\* that deny or hold the job as on the others, and the priority-end hook
\* and the jobacct-start hook are called with the lock not held.
C18_LockReleasedAndNotReentered ==
    \A t \in JobIds :
       rt.th[t].pc \in {"idle", "entry", "hook", "lock_assoc", "return"}
          => rt.th[t].held = NoLock

\* A query that failed at a check of the QOS pair is about to return,
\* while another thread is in the priority-end hook.
C18_Witness ==
    \E t, u \in JobIds :
       /\ rt.th[t].pc = "return" /\ rt.th[t].op = "pre_select"
       /\ rt.th[t].res.failed /\ Len(rt.th[t].obs) = 1
       /\ rt.th[u].pc = "hook" /\ rt.th[u].op = "job_fini"

\* acct_policy_update_pending_job is in the jobacct-start hook.
C18_WitnessJobacct ==
    \E t \in JobIds :
       rt.th[t].pc = "hook" /\ rt.th[t].op = "update_pending_job"

(***************************************************************************)
(* SpecHold: the runnable checks on jobs that come with a state_reason of  *)
(* their own: none, a hold of an earlier check, or a reason of the         *)
(* scheduler.  Accounting is not enforced, enforced for associations only  *)
(* or with limits.  The last job's association pointer is bound, unbound   *)
(* with an account that resolves, or unbound with an account that is gone. *)
(* QOS 1 limits the running jobs, the CPUs and the wall time of the group, *)
(* the account limits the running jobs; the administrator may lift the     *)
(* limits of the QOS between calls.                                        *)
(***************************************************************************)
\* How the last job is bound, and the state_reason the jobs come with.
HoldJobKinds ==
    {<<"bound", "WAIT_NO_REASON">>, <<"bound", "WAIT_ASSOC_GRP_WALL">>,
     <<"stale", "WAIT_ASSOC_GRP_WALL">>, <<"gone", "WAIT_PRIORITY">>,
     <<"gone", "WAIT_ASSOC_GRP_WALL">>}

HoldJob(j, kind, reason) ==
    [QueryJob(j, kind # "bound") EXCEPT
        !.account = IF kind = "gone" /\ j = NumJobs THEN "gone" ELSE @,
        !.state_reason = reason]

InitHold ==
    /\ accounting_enforce \in {{}, {"ASSOCIATIONS"}, {"ASSOCIATIONS", "LIMITS"}}
    /\ qos = [q \in QosIds |->
                IF q = 1
                THEN [InitQosRec EXCEPT
                        !.lim.grp_jobs = 1, !.lim.grp_cpus = 3,
                        !.lim.grp_wall = 2, !.usage.grp_used_wall = 60]
                ELSE InitQosRec]
    /\ assoc = [a \in AssocIds |->
                  [InitAssocRec(a) EXCEPT
                     !.lim.grp_jobs = IF a = AcctAssoc THEN 1 ELSE INFINITE]]
    /\ part = [p \in PartIds |-> [max_time |-> INFINITE, qos_ptr |-> 0]]
    /\ \E k \in HoldJobKinds : job = [j \in JobIds |-> HoldJob(j, k[1], k[2])]
    /\ hist = [j \in JobIds |-> InitHist]
    /\ nops = 0
    /\ rt = NoRt
    /\ ret = NoRet

NextHold ==
    \/ \E j \in JobIds : ~Begun(j) /\ acct_policy_job_begin(j)
    \/ \E j \in JobIds : Running(j) /\ acct_policy_job_fini(j)
    \/ \E j \in JobIds : acct_policy_validate(j)
    \/ \E j \in JobIds : JobRunnableState(j)
    \/ \E j \in JobIds : ~Begun(j) /\ acct_policy_job_runnable_pre_select(j)
    \/ \E j \in JobIds, p \in QueryProposals :
          ~Begun(j) /\ acct_policy_job_runnable_post_select(j, p[1], p[2], p[3])
    \/ \E j \in JobIds : Running(j) /\ acct_policy_job_time_out(j, 130)
    \/ \E name \in {"grp_jobs", "grp_cpus"} : LiftQosLimit(1, name)

SpecHold == InitHold /\ [][NextHold]_vars

\* The job's association pointer is good, or its account and user have an
\* association.
Rebinds(j) ==
    \/ /\ job[j].assoc_ptr # 0
       /\ assoc[job[j].assoc_ptr].id = job[j].assoc_id
       /\ assoc[job[j].assoc_ptr].uid = job[j].user_id
    \/ \E a \in AssocIds :
          assoc[a].acct = job[j].account /\ assoc[a].uid = job[j].user_id

\* A step that is a call of pre_select, of post_select, for job j.
PreSelectStep(j) == hist' = hist /\ ret'.op = "pre_select" /\ ret'.job = j

PostSelectStep(j) == hist' = hist /\ ret'.op = "post_select" /\ ret'.job = j

\* The reasons of the limits that pre_select looks at and that job j
\* violates now, on any of its QOS and on any association of its chain.
PreSelectQosHolds(j, q) ==
    {r \in LimitReasons :
       \/ /\ r = "WAIT_QOS_GRP_JOB" /\ qos[q].lim.grp_jobs # INFINITE
          /\ qos[q].usage.grp_used_jobs >= qos[q].lim.grp_jobs
       \/ /\ r = "WAIT_QOS_GRP_WALL" /\ qos[q].lim.grp_wall # INFINITE
          /\ qos[q].usage.grp_used_wall \div 60 >= qos[q].lim.grp_wall
       \/ /\ r = "WAIT_QOS_MAX_JOB_PER_USER" /\ qos[q].lim.max_jobs_pu # INFINITE
          /\ UserEntry(q, job[j].user_id).jobs >= qos[q].lim.max_jobs_pu
       \/ /\ r = "WAIT_QOS_MAX_WALL_PER_JOB" /\ qos[q].lim.max_wall_pj # INFINITE
          /\ job[j].time_limit # NO_VAL
          /\ job[j].time_limit > qos[q].lim.max_wall_pj}

PreSelectAssocHolds(j, a) ==
    {r \in LimitReasons :
       \/ /\ r = "WAIT_ASSOC_GRP_JOB" /\ assoc[a].lim.grp_jobs # INFINITE
          /\ assoc[a].usage.used_jobs >= assoc[a].lim.grp_jobs
       \/ /\ r = "WAIT_ASSOC_GRP_WALL" /\ assoc[a].lim.grp_wall # INFINITE
          /\ assoc[a].usage.grp_used_wall \div 60 >= assoc[a].lim.grp_wall
       \/ /\ r = "WAIT_ASSOC_MAX_JOBS" /\ assoc[a].lim.max_jobs # INFINITE
          /\ assoc[a].usage.used_jobs >= assoc[a].lim.max_jobs
       \/ /\ r = "WAIT_ASSOC_MAX_WALL_PER_JOB"
          /\ assoc[a].lim.max_wall_pj # INFINITE
          /\ job[j].time_limit # NO_VAL
          /\ job[j].time_limit > assoc[a].lim.max_wall_pj}

PreSelectHolds(j) ==
    UNION ({PreSelectQosHolds(j, q) : q \in JobQosSet(j)}
           \cup {PreSelectAssocHolds(j, a) : a \in JobAssocSet(j)})

\* C21: the entry sequence of pre_select.  With accounting_enforce 0 it
\* returns true and changes nothing.  Otherwise, when the job's
\* association is neither good nor found again, it sets state_reason to
\* FAIL_ACCOUNT and returns false; no other step of the engine puts
\* FAIL_ACCOUNT into a job or into a reason it hands out.  Otherwise, when
\* LIMITS is not enforced, it returns true and leaves state_reason as it
\* is; when LIMITS is enforced, a state_reason that is an accounting hold
\* has been cleared before the limits are evaluated: the call returns true
\* with WAIT_NO_REASON, or false with the reason of a limit that is
\* violated now.
C21_PreSelectEntrySequence ==
    [][/\ \A j \in JobIds :
            PreSelectStep(j) =>
               /\ accounting_enforce = {} =>
                     ret'.rc /\ UNCHANGED <<job, qos, assoc, part>>
               /\ (accounting_enforce # {} /\ ~Rebinds(j)) =>
                     ~ret'.rc /\ job'[j].state_reason = "FAIL_ACCOUNT"
               /\ (accounting_enforce # {} /\ ~LimitsEnforced /\ Rebinds(j)) =>
                     ret'.rc /\ job'[j].state_reason = job[j].state_reason
               /\ (LimitsEnforced /\ Rebinds(j)
                     /\ job[j].state_reason \in LimitReasons) =>
                     IF ret'.rc
                     THEN job'[j].state_reason = "WAIT_NO_REASON"
                     ELSE job'[j].state_reason \in PreSelectHolds(j)
       /\ \A j \in JobIds :
            (job'[j].state_reason = "FAIL_ACCOUNT"
               /\ job[j].state_reason # "FAIL_ACCOUNT") =>
               PreSelectStep(j) /\ accounting_enforce # {} /\ ~Rebinds(j)
       /\ ("reason" \in DOMAIN ret' /\ ret'.reason = "FAIL_ACCOUNT"
             /\ job[ret'.job].state_reason # "FAIL_ACCOUNT") =>
            ret'.op = "pre_select" /\ ~Rebinds(ret'.job)]_vars

\* The claim as it stands: whenever accounting is enforced and the
\* association resolves, pre_select clears an accounting hold.
C21_HoldAlwaysCleared ==
    [][\A j \in JobIds :
         (PreSelectStep(j) /\ accounting_enforce # {} /\ Rebinds(j)
            /\ job[j].state_reason \in LimitReasons) =>
            IF ret'.rc
            THEN job'[j].state_reason = "WAIT_NO_REASON"
            ELSE job'[j].state_reason \in PreSelectHolds(j)]_vars

\* With associations enforced and limits not, pre_select has let a job
\* through and left its accounting hold in place.
C21_Witness ==
    /\ ret.op = "pre_select" /\ ret.rc
    /\ accounting_enforce = {"ASSOCIATIONS"} /\ Rebinds(ret.job)
    /\ ret.entry_reason \in LimitReasons
    /\ job[ret.job].state_reason = ret.entry_reason

\* pre_select has refused a job whose account is gone.
C21_WitnessFailAccount ==
    /\ ret.op = "pre_select" /\ ~ret.rc /\ ret.reason = "FAIL_ACCOUNT"
    /\ ~Rebinds(ret.job) /\ accounting_enforce # {}
    /\ \E i \in JobIds :
          /\ Rebinds(i) /\ job[i].state_reason = "WAIT_NO_REASON"
          /\ hist[i].begin = 0

C21_WitnessCleared ==
    /\ ret.op = "pre_select" /\ ret.rc /\ LimitsEnforced
    /\ ret.entry_reason \in LimitReasons
    /\ ret.reason = "WAIT_NO_REASON"

C21_WitnessNotEnforced ==
    /\ ret.op = "pre_select" /\ ret.rc /\ accounting_enforce = {}
    /\ ret.entry_reason \in LimitReasons /\ ret.reason = ret.entry_reason

\* Job j, placed on node_cnt nodes and cpu_cnt CPUs with job_memory,
\* violates a limit of QOS q that post_select looks at: a group limit that
\* usage and request together exceed, a per-job limit that the request
\* exceeds or falls short of, a per-user limit.
PostSelectQosViolated(j, q, node_cnt, cpu_cnt, job_memory) ==
    LET L == qos[q].lim
        U == qos[q].usage
        e == UserEntry(q, job[j].user_id)
        t == job[j].time_limit * cpu_cnt
    IN  \/ /\ L.grp_cpu_mins # INFINITE
           /\ \/ UsageMins(U) >= L.grp_cpu_mins
              \/ /\ "SAFE" \in accounting_enforce
                 /\ t + CpuRunMinsOf(U) > L.grp_cpu_mins - UsageMins(U)
        \/ L.grp_cpus # INFINITE /\ U.grp_used_cpus + cpu_cnt > L.grp_cpus
        \/ L.grp_mem # INFINITE /\ U.grp_used_mem + job_memory > L.grp_mem
        \/ /\ L.grp_cpu_run_mins # INFINITE
           /\ CpuRunMinsOf(U) + t > L.grp_cpu_run_mins
        \/ L.grp_nodes # INFINITE /\ U.grp_used_nodes + node_cnt > L.grp_nodes
        \/ L.max_cpu_mins_pj # INFINITE /\ t > L.max_cpu_mins_pj
        \/ L.max_cpus_pj # INFINITE /\ cpu_cnt > L.max_cpus_pj
        \/ L.min_cpus_pj # INFINITE /\ cpu_cnt < L.min_cpus_pj
        \/ L.max_cpus_pu # INFINITE /\ e.cpus + cpu_cnt > L.max_cpus_pu
        \/ L.max_nodes_pj # INFINITE /\ node_cnt > L.max_nodes_pj
        \/ L.max_nodes_pu # INFINITE /\ e.nodes + node_cnt > L.max_nodes_pu

PostSelectAssocViolated(j, a, node_cnt, cpu_cnt, job_memory) ==
    LET L == assoc[a].lim
        U == assoc[a].usage
        t == job[j].time_limit * cpu_cnt
    IN  \/ /\ L.grp_cpu_mins # INFINITE
           /\ \/ UsageMins(U) >= L.grp_cpu_mins
              \/ /\ "SAFE" \in accounting_enforce
                 /\ t + CpuRunMinsOf(U) > L.grp_cpu_mins - UsageMins(U)
        \/ L.grp_cpus # INFINITE /\ U.grp_used_cpus + cpu_cnt > L.grp_cpus
        \/ L.grp_mem # INFINITE /\ U.grp_used_mem + job_memory > L.grp_mem
        \/ /\ L.grp_cpu_run_mins # INFINITE
           /\ CpuRunMinsOf(U) + t > L.grp_cpu_run_mins
        \/ L.grp_nodes # INFINITE /\ U.grp_used_nodes + node_cnt > L.grp_nodes
        \/ L.max_cpu_mins_pj # INFINITE /\ t > L.max_cpu_mins_pj
        \/ L.max_cpus_pj # INFINITE /\ cpu_cnt > L.max_cpus_pj
        \/ L.max_nodes_pj # INFINITE /\ node_cnt > L.max_nodes_pj

PostSelectViolated(j, proposal) ==
    LET job_memory == PostSelectJobMemory(proposal[3], proposal[1], proposal[2])
    IN  \/ \E q \in JobQosSet(j) :
              PostSelectQosViolated(j, q, proposal[1], proposal[2], job_memory)
        \/ \E a \in JobAssocSet(j) :
              PostSelectAssocViolated(j, a, proposal[1], proposal[2], job_memory)

\* C22: a hold is recoverable.  When a job carries an accounting hold, its
\* association resolves, limits are enforced, and by now (a limit was
\* relaxed, or usage has dropped) the job violates none of the limits of
\* pre_select, that call returns true and the job's state_reason is
\* WAIT_NO_REASON; and so for post_select and the limits it looks at for
\* the proposed placement.
C22_HoldIsRecoverable ==
    [][\A j \in JobIds :
         /\ (PreSelectStep(j) /\ LimitsEnforced /\ Rebinds(j)
               /\ job[j].state_reason \in LimitReasons
               /\ PreSelectHolds(j) = {}) =>
               ret'.rc /\ job'[j].state_reason = "WAIT_NO_REASON"
         /\ (PostSelectStep(j) /\ LimitsEnforced /\ Rebinds(j)
               /\ job[j].state_reason \in LimitReasons
               /\ ~PostSelectViolated(j, ret'.proposal)) =>
               ret'.rc /\ ret'.reason = "WAIT_NO_REASON"]_vars

\* pre_select held the job for the group's job count; the other job has
\* ended since, and the next pre_select lets the job through.
C22_Witness ==
    /\ ret.op = "pre_select" /\ ret.rc /\ LimitsEnforced
    /\ ret.entry_reason = "WAIT_QOS_GRP_JOB"
    /\ job[ret.job].state_reason = "WAIT_NO_REASON"
    /\ qos[1].lim.grp_jobs = 1
    /\ \E i \in JobIds \ {ret.job} : hist[i].fini >= 1

\* The same after the limit was lifted.
C22_WitnessLifted ==
    /\ ret.op = "pre_select" /\ ret.rc /\ LimitsEnforced
    /\ ret.entry_reason = "WAIT_QOS_GRP_JOB"
    /\ job[ret.job].state_reason = "WAIT_NO_REASON"
    /\ qos[1].lim.grp_jobs = INFINITE
    /\ qos[1].usage.grp_used_jobs >= 1

\* post_select held the job for the group's CPUs and lets it through after
\* the limit was lifted.
C22_WitnessPostSelect ==
    /\ ret.op = "post_select" /\ ret.rc /\ LimitsEnforced
    /\ ret.entry_reason = "WAIT_QOS_GRP_CPU"
    /\ ret.reason = "WAIT_NO_REASON"
    /\ qos[1].lim.grp_cpus = INFINITE
    /\ qos[1].usage.grp_used_cpus + ret.proposal[2] > 3

\* C23: acct_policy_job_runnable_state is a predicate of state_reason alone
\* and agrees with the runnable checks: with LIMITS enforced and an
\* association that resolves, it is false of the job right after pre_select
\* or post_select has returned false and true right after either has
\* returned true.  The call itself changes nothing and answers the same for
\* every job with the same state_reason.
C23_RunnableStateAgreesWithChecks ==
    [][/\ \A j \in JobIds :
            ((PreSelectStep(j) \/ PostSelectStep(j))
                /\ LimitsEnforced /\ Rebinds(j)) =>
               (acct_policy_job_runnable_state(job'[j]) <=> ret'.rc)
       /\ (hist' = hist /\ ret'.op = "job_runnable_state") =>
            /\ UNCHANGED <<accounting_enforce, qos, assoc, part, job>>
            /\ \A i \in JobIds :
                  job[i].state_reason = job[ret'.job].state_reason =>
                     (acct_policy_job_runnable_state(job[i]) <=> ret'.rc)]_vars

\* post_select has just held a job on a limit of its account, and the
\* predicate is false of it; pre_select has just let a job through that
\* carries a reason of the scheduler, and the predicate is true of it.
C23_Witness ==
    /\ ret.op = "post_select" /\ ~ret.rc /\ LimitsEnforced
    /\ job[ret.job].state_reason = "WAIT_QOS_GRP_CPU"
    /\ ~acct_policy_job_runnable_state(job[ret.job])

C23_WitnessAssocHold ==
    /\ ret.op = "pre_select" /\ ~ret.rc /\ LimitsEnforced
    /\ job[ret.job].state_reason = "WAIT_ASSOC_GRP_JOB"
    /\ ~acct_policy_job_runnable_state(job[ret.job])

C23_WitnessTrue ==
    /\ ret.op = "job_runnable_state" /\ ret.rc
    /\ job[ret.job].state_reason = "WAIT_NO_REASON"
    /\ \E i \in JobIds : ~acct_policy_job_runnable_state(job[i])

\* A step that is a lifecycle call, or a call of alter_job, for job j.
LifecycleStep(j) == hist'[j] # hist[j]

AlterStep(j) == hist' = hist /\ rt'.stage >= 1 /\ rt'.job = j

\* C25: the adjuster (behind add_job_submit, remove_job_submit, job_begin
\* and job_fini) and alter_job change no usage counter and no per-user
\* list, of any QOS or association, when LIMITS is not enforced or when
\* the job's association neither resolves nor can be bound again.
C25_NoChangeWithoutLimitsOrAssoc ==
    [][\A j \in JobIds :
         ((LifecycleStep(j) \/ AlterStep(j))
             /\ (~LimitsEnforced \/ ~Rebinds(j))) =>
            UNCHANGED <<qos, assoc>>]_vars

\* With LIMITS enforced a job whose account is gone has been submitted and
\* begun and had its time limit altered while running, and every counter
\* is as it was at the start.
C25_Witness ==
    /\ LimitsEnforced
    /\ \E j \in JobIds :
          /\ ~Rebinds(j) /\ hist[j].add >= 1 /\ hist[j].begin >= 1
          /\ rt.stage >= 1 /\ rt.job = j /\ rt.running /\ rt.t0 # rt.t1
    /\ qos = [q \in QosIds |-> InitQosRec]
    /\ assoc = [a \in AssocIds |-> InitAssocRec(a)]

\* The same for a job whose association is good, with LIMITS not enforced.
C25_WitnessNoLimits ==
    /\ ~LimitsEnforced
    /\ \E j \in JobIds :
          /\ Rebinds(j) /\ hist[j].add >= 1 /\ hist[j].begin >= 1
          /\ rt.stage >= 1 /\ rt.job = j /\ rt.running /\ rt.t0 # rt.t1
    /\ qos = [q \in QosIds |-> InitQosRec]
    /\ assoc = [a \in AssocIds |-> InitAssocRec(a)]

(***************************************************************************)
(* SpecFini: jobs that begin and end, and end again.  Each job has its     *)
(* thread, as in SpecLock.  priority_g_job_end, the hook of the priority   *)
(* plugin that JOB_FINI calls before the lock, marks the job by setting    *)
(* end_time_exp to NO_VAL, or (another plugin) leaves it alone; the        *)
(* caller may call acct_policy_job_fini again on a job that is complete.   *)
(***************************************************************************)
CallFiniAgain(t) ==
    /\ rt.th[t].pc = "idle"
    /\ job[t].job_state = "COMPLETE"
    /\ nops < MaxOps
    /\ nops' = nops + 1
    /\ rt' = [rt EXCEPT !.th[t] = [IdleThread EXCEPT !.op = "job_fini",
                                                    !.pc = "entry",
                                                    !.held = rt.th[t].held]]
    /\ UNCHANGED <<accounting_enforce, qos, assoc, part, job, hist, ret>>

\* priority_g_job_end of a plugin that marks the job.
PriorityJobEnd(t) ==
    /\ rt.th[t].pc = "hook" /\ rt.th[t].op = "job_fini"
    /\ job' = [job EXCEPT ![t].end_time_exp = NO_VAL]
    /\ rt' = [rt EXCEPT !.th[t].pc = "lock_assoc"]
    /\ UNCHANGED <<accounting_enforce, qos, assoc, part, hist, nops, ret>>

InitFini ==
    /\ accounting_enforce = {"ASSOCIATIONS", "LIMITS"}
    /\ qos = [q \in QosIds |-> InitQosRec]
    /\ assoc = [a \in AssocIds |-> InitAssocRec(a)]
    /\ part = [p \in PartIds |-> [max_time |-> INFINITE, qos_ptr |-> 0]]
    /\ \E stale \in BOOLEAN : job = [j \in JobIds |-> QueryJob(j, stale)]
    /\ hist = [j \in JobIds |-> InitHist]
    /\ nops = 0
    /\ rt = [stage |-> 0, th |-> [t \in JobIds |-> IdleThread]]
    /\ ret = NoRet

NextFini ==
    \/ \E t \in JobIds, op \in {"job_begin", "job_fini"} : Call(t, op)
    \/ \E t \in JobIds : CallFiniAgain(t)
    \/ \E t \in JobIds : Entry(t)
    \/ \E t \in JobIds : Hook(t)
    \/ \E t \in JobIds : PriorityJobEnd(t)
    \/ \E t \in JobIds, axis \in {"assoc", "qos"} : LockAxis(t, axis)
    \/ \E t \in JobIds : WriteQos(t)
    \/ \E t \in JobIds : WriteAssoc(t)
    \/ \E t \in JobIds : Unlock(t)
    \/ \E t \in JobIds : Return(t)

SpecFini == InitFini /\ [][NextFini]_vars

\* Thread t is in a call of job_fini that has passed its checks: at the
\* hook, at the lock, in its writes or at the unlock.
FiniPastGuard(t) ==
    /\ rt.th[t].op = "job_fini"
    /\ rt.th[t].pc \in {"hook", "lock_assoc", "lock_qos", "w_qos", "w_assoc", "unlock"}

\* C26: the guard against a second JOB_FINI.  A call of job_fini that
\* finds end_time_exp = NO_VAL returns from its checks: it changes no
\* counter and does not come to the priority-end hook.  A call is at the
\* hook only with end_time_exp other than NO_VAL, and is past the hook
\* only after having been at it; so every further job_fini of a marked job
\* leaves the counters alone.
C26_DoubleFiniGuard ==
    /\ [](\A t \in JobIds :
            (rt.th[t].op = "job_fini" /\ rt.th[t].pc = "hook") =>
               job[t].end_time_exp # NO_VAL)
    /\ [][\A t \in JobIds :
            /\ (rt.th[t].op = "job_fini" /\ rt.th[t].pc = "entry"
                  /\ job[t].end_time_exp = NO_VAL
                  /\ rt'.th[t] # rt.th[t]) =>
                  /\ rt'.th[t].pc = "return"
                  /\ UNCHANGED <<qos, assoc, job>>
            /\ (FiniPastGuard(t)' /\ ~FiniPastGuard(t)) =>
                  /\ rt.th[t].pc = "entry" /\ rt'.th[t].pc = "hook"
                  /\ job[t].end_time_exp # NO_VAL
            /\ (rt.th[t].op = "job_fini" /\ rt.th[t].pc = "return"
                  /\ rt'.th[t] # rt.th[t]) =>
                  UNCHANGED <<qos, assoc>>]_vars

\* Both jobs have begun and job 1 has ended twice, the hook having marked
\* it the first time: the counters still hold the other job.
C26_Witness ==
    /\ nops = 4
    /\ \A t \in JobIds : rt.th[t].pc = "idle"
    /\ job[1].job_state = "COMPLETE" /\ job[1].end_time_exp = NO_VAL
    /\ job[2].job_state = "RUNNING"
    /\ ret.op = "job_fini" /\ ret.job = 1
    /\ assoc[AcctAssoc].usage.used_jobs = 1
    /\ qos[1].usage.grp_used_jobs = 1

\* A second job_fini is returning from its checks.
C26_WitnessReturns ==
    \E t \in JobIds :
       /\ rt.th[t].op = "job_fini" /\ rt.th[t].pc = "return"
       /\ rt.th[t].held = NoLock
       /\ job[t].job_state = "COMPLETE" /\ job[t].end_time_exp = NO_VAL

\* C27 as amended: the adjuster and alter_job apply their deltas to the
\* job's association and to every ancestor, the root association
\* included.  Every job's chain runs through the account association and
\* ends at the root, so whatever a call does to the counters of the
\* account it does to those of the root: the two are equal at all times.
C27_RootGetsEveryDelta == assoc[RootAssoc].usage = assoc[AcctAssoc].usage

\* C27 as claimed: no lifecycle call and no alter_job changes a usage
\* counter of the root association.
C27_RootUsageUntouched ==
    [][assoc'[RootAssoc].usage = assoc[RootAssoc].usage]_vars

\* A job has begun and had its time limit altered, and the root
\* association counts it: a job, its CPUs and its CPU run seconds.
C27_Witness ==
    /\ assoc[RootAssoc].usage.used_jobs >= 1
    /\ assoc[RootAssoc].usage.grp_used_cpus >= 1
    /\ assoc[RootAssoc].usage.grp_used_cpu_run_secs >= 1
    /\ assoc[RootAssoc].usage.used_submit_jobs >= 1
    /\ rt.stage >= 1 /\ rt.running /\ rt.t0 # rt.t1

(***************************************************************************)
(* SpecRoot: the queries and the lifecycle calls when the root association *)
(* alone has a limit, one limit at a time, and carries raw usage and wall  *)
(* time of its own.  No QOS and no other association has a limit, so that  *)
(* whatever a query denies, holds or lowers is the root's doing.           *)
(***************************************************************************)
RootLimitNames ==
    {"grp_jobs", "grp_submit_jobs", "grp_nodes", "grp_cpus", "grp_wall",
     "grp_cpu_mins", "max_jobs", "max_nodes_pj", "max_wall_pj"}

InitRoot ==
    /\ accounting_enforce = {"ASSOCIATIONS", "LIMITS"}
    /\ qos = [q \in QosIds |-> InitQosRec]
    /\ \E name \in RootLimitNames :
          assoc = [a \in AssocIds |->
                     IF a = RootAssoc
                     THEN [InitAssocRec(a) EXCEPT
                             !.lim[name] = 1,
                             !.usage.usage_raw = 120,
                             !.usage.grp_used_wall = 120]
                     ELSE InitAssocRec(a)]
    /\ part = [p \in PartIds |-> [max_time |-> INFINITE, qos_ptr |-> 0]]
    /\ job = [j \in JobIds |-> QueryJob(j, FALSE)]
    /\ hist = [j \in JobIds |-> InitHist]
    /\ nops = 0
    /\ rt = NoRt
    /\ ret = NoRet

SpecRoot == InitRoot /\ [][NextQuery]_vars

\* The tables with no limit on the root association, and with none of the
\* root's limits that are not group limits.
StripRoot(atab) == [atab EXCEPT ![RootAssoc].lim = InitAssocLimits]

StripRootMax(atab) ==
    [atab EXCEPT ![RootAssoc].lim =
        [n \in AssocLimitNames |->
           IF n \in {"grp_jobs", "grp_submit_jobs", "grp_nodes", "grp_cpus",
                     "grp_mem", "grp_tres_mem", "grp_wall", "grp_cpu_mins",
                     "grp_cpu_run_mins"}
           THEN atab[RootAssoc].lim[n] ELSE INFINITE]]

AssocGrpReasons ==
    {"WAIT_ASSOC_GRP_CPU", "WAIT_ASSOC_GRP_CPU_MIN",
     "WAIT_ASSOC_GRP_CPU_RUN_MIN", "WAIT_ASSOC_GRP_JOB",
     "WAIT_ASSOC_GRP_MEMORY", "WAIT_ASSOC_GRP_NODES",
     "WAIT_ASSOC_GRP_SUB_JOB", "WAIT_ASSOC_GRP_WALL"}

\* What a query step answers is what the query answers with the tables
\* atab in place of the association table.
AnswersAsWith(atab) ==
    \A j \in JobIds :
       (hist' = hist /\ ret'.op \in QueryOps /\ ret'.job = j) =>
          CASE ret'.op = "validate" ->
                  ret'.rc = Validate(qos, atab, part, job[j]).rc
            [] ret'.op = "pre_select" ->
                  ret'.rc = PreSelect(accounting_enforce, qos, atab, part,
                                      job[j]).rc
            [] ret'.op = "post_select" ->
                  ret'.rc = PostSelect(accounting_enforce, qos, atab, part,
                                       job[j], ret'.proposal[1],
                                       ret'.proposal[2], ret'.proposal[3]).rc
            [] ret'.op = "time_out" ->
                  ret'.rc = TimeOut(accounting_enforce, qos, atab, part,
                                    job[j], ret'.now).rc
            [] ret'.op = "get_max_nodes" ->
                  ret'.max_nodes_limit
                     = GetMaxNodes(accounting_enforce, qos, atab, part, job[j],
                                   job[j].state_reason).limit
            [] OTHER -> TRUE

C28_WitnessTimeOut ==
    /\ ret.op = "time_out" /\ ~ret.rc
    /\ assoc[RootAssoc].lim.grp_cpu_mins = 1
    /\ assoc[RootAssoc].usage.usage_raw = 120

\* A limit of the root that is not a group limit holds no job.
C28_WitnessMax ==
    /\ ret.op = "pre_select" /\ ret.rc
    /\ assoc[RootAssoc].lim.max_jobs = 1
    /\ assoc[RootAssoc].usage.used_jobs >= 1

(***************************************************************************)
(* SpecPending: acct_policy_update_pending_job on jobs whose time limit is *)
(* unspecified, set by the user within or beyond the wall limit of the     *)
(* QOS, set from a limit, or set by an administrator; the jobs are pending *)
(* or running, the QOS has a wall limit or none, and the administrator may *)
(* lift it between calls.  update_accounting in ret stands for the stamp   *)
(* of last_job_update and the call of jobacct_storage_job_start_direct,    *)
(* which the function makes together.                                      *)
(***************************************************************************)
PendingTimes ==
    {<<NO_VAL, 0>>, <<3, 0>>, <<50, 0>>, <<5, 1>>, <<7, 1>>,
     <<50, ADMIN_SET_LIMIT>>}

PendingJob(j, tm, state) ==
    [QueryJob(j, FALSE) EXCEPT !.time_limit = tm[1], !.limit_set.time = tm[2],
                               !.job_state = state]

UpdatePendingOutcome(j, r, u) ==
    /\ job' = [job EXCEPT ![j] = u.job]
    /\ ret' = [op |-> "update_pending_job", job |-> j, rc |-> ~u.failed,
               update_accounting |-> u.update_accounting,
               validated |-> TRUE, validator_rc |-> r.rc]

acct_policy_update_pending_job(j) ==
    /\ IF UpdatePendingReturnsEarly(accounting_enforce, job[j])
       THEN /\ ret' = [op |-> "update_pending_job", job |-> j, rc |-> TRUE,
                       update_accounting |-> FALSE, validated |-> FALSE,
                       validator_rc |-> TRUE]
            /\ UNCHANGED job
       ELSE UpdatePendingOutcome(
               j, Validate(qos, assoc, part, PendingJobDesc(job[j])),
               UpdatePendingJob(job[j],
                   Validate(qos, assoc, part, PendingJobDesc(job[j]))))
    /\ rt' = NoRt
    /\ UNCHANGED <<accounting_enforce, qos, assoc, part, hist, nops>>

InitPending ==
    /\ accounting_enforce \in {{"ASSOCIATIONS", "LIMITS"}, {"ASSOCIATIONS"}}
    /\ \E wall \in {5, INFINITE} :
          qos = [q \in QosIds |->
                   IF q = 1 THEN [InitQosRec EXCEPT !.lim.max_wall_pj = wall]
                   ELSE InitQosRec]
    /\ assoc = [a \in AssocIds |-> InitAssocRec(a)]
    /\ part = [p \in PartIds |-> [max_time |-> INFINITE, qos_ptr |-> 0]]
    /\ \E tm \in [JobIds -> PendingTimes], state \in {"PENDING", "RUNNING"} :
          job = [j \in JobIds |-> PendingJob(j, tm[j], state)]
    /\ hist = [j \in JobIds |-> InitHist]
    /\ nops = 0
    /\ rt = NoRt
    /\ ret = NoRet

NextPending ==
    \/ \E j \in JobIds : acct_policy_update_pending_job(j)
    \/ LiftQosLimit(1, "max_wall_pj")

SpecPending == InitPending /\ [][NextPending]_vars

\* A step that is a call of update_pending_job for job j.
UpdatePendingStep(j) == ret'.op = "update_pending_job" /\ ret'.job = j

\* The answer of the validator to the descriptor built for job j.
PendingValidated(j) == Validate(qos, assoc, part, PendingJobDesc(job[j]))

TimeChanged(j) ==
    \/ job'[j].time_limit # job[j].time_limit
    \/ job'[j].limit_set.time # job[j].limit_set.time

C24_WitnessSet ==
    /\ ret.op = "update_pending_job" /\ ret.rc /\ ret.update_accounting
    /\ job[ret.job].time_limit = 5 /\ job[ret.job].limit_set.time = 1
    /\ qos[1].lim.max_wall_pj = 5

\* The validator has denied a time limit of the user beyond the limit.
C24_WitnessDenied ==
    /\ ret.op = "update_pending_job" /\ ~ret.rc /\ ~ret.update_accounting
    /\ job[ret.job].time_limit = 50 /\ job[ret.job].limit_set.time = 0

\* An admin-set limit beyond the limit of the QOS has been left alone, and
\* so has a job that is running.
C24_WitnessAdmin ==
    /\ ret.op = "update_pending_job" /\ ret.rc /\ ret.validated
    /\ ~ret.update_accounting
    /\ job[ret.job].limit_set.time = ADMIN_SET_LIMIT
    /\ job[ret.job].time_limit = 50 /\ qos[1].lim.max_wall_pj = 5

C24_WitnessNotPending ==
    /\ ret.op = "update_pending_job" /\ ret.rc /\ ~ret.validated
    /\ LimitsEnforced /\ job[ret.job].job_state = "RUNNING"
    /\ job[ret.job].time_limit = 7 /\ qos[1].lim.max_wall_pj = 5

(***************************************************************************)
(* SpecOverlay: the four checkers on a job with two QOS.  One limit field  *)
(* at a time is set on the job's QOS, on the partition's QOS and on the    *)
(* associations of the job's chain, each to a value that the job meets, to *)
(* a value that it breaks, or left INFINITE; the PART_QOS flag of the      *)
(* job's QOS decides which of the two QOS comes first.  Both QOS and every *)
(* association carry the same usage; job 1 runs, the other jobs pend.      *)
(***************************************************************************)
OverlayValues == {1, 5, INFINITE}

\* The limit of an association that stands for the same thing as limit f of
\* a QOS; "none" when the association record has no such limit.
AssocNameOf(f) ==
    CASE f = "max_jobs_pu" -> "max_jobs"
      [] f = "max_submit_jobs_pu" -> "max_submit_jobs"
      [] f \in {"max_cpus_pu", "max_nodes_pu", "min_cpus_pj"} -> "none"
      [] OTHER -> f

OverlayQosUsage ==
    [InitQosUsage EXCEPT
       !.grp_used_cpus = 2, !.grp_used_nodes = 1, !.grp_used_jobs = 1,
       !.grp_used_submit_jobs = 1, !.grp_used_cpu_run_secs = 120,
       !.grp_used_wall = 120, !.usage_raw = 120,
       !.user_limit_list =
          [u \in 1..NumUsers |->
             [uid |-> u, cpus |-> 2, jobs |-> 1, nodes |-> 1,
              submit_jobs |-> 1]]]

OverlayAssocUsage ==
    [InitAssocUsage EXCEPT
       !.used_jobs = 1, !.used_submit_jobs = 1, !.grp_used_cpus = 2,
       !.grp_used_nodes = 1, !.grp_used_cpu_run_secs = 120,
       !.grp_used_wall = 120, !.usage_raw = 120]

InitOverlay ==
    /\ accounting_enforce = {"ASSOCIATIONS", "LIMITS"}
    /\ \E f \in QosLimitNames, v1 \in OverlayValues, v2 \in OverlayValues,
          first \in BOOLEAN :
          /\ qos = [q \in QosIds |->
                      [lim |-> [InitQosLimits EXCEPT
                                  ![f] = IF q = 1 THEN v1 ELSE v2],
                       flags |-> IF q = 1 /\ first THEN {"PART_QOS"} ELSE {},
                       usage |-> OverlayQosUsage]]
          /\ \E va \in OverlayValues :
                assoc = [a \in AssocIds |->
                           [InitAssocRec(a) EXCEPT
                              !.lim = [g \in AssocLimitNames |->
                                         IF g = AssocNameOf(f) THEN va
                                         ELSE INFINITE],
                              !.usage = OverlayAssocUsage]]
    /\ part = [p \in PartIds |-> [max_time |-> INFINITE, qos_ptr |-> 2]]
    /\ job = [j \in JobIds |-> QueryJob(j, FALSE)]
    /\ hist = [j \in JobIds |->
                 IF j = 1 THEN [InitHist EXCEPT !.add = 1, !.begin = 1]
                 ELSE InitHist]
    /\ nops = 0
    /\ rt = NoRt
    /\ ret = NoRet

NextOverlay ==
    \/ \E j \in JobIds : ~Begun(j) /\ acct_policy_validate(j)
    \/ \E j \in JobIds : ~Begun(j) /\ acct_policy_job_runnable_pre_select(j)
    \/ \E j \in JobIds, p \in QueryProposals :
          ~Begun(j) /\ acct_policy_job_runnable_post_select(j, p[1], p[2], p[3])
    \/ \E j \in JobIds : Running(j) /\ \E now \in QueryNows : acct_policy_job_time_out(j, now)

SpecOverlay == InitOverlay /\ [][NextOverlay]_vars

\* QOS q sets limit f.
QosSets(qtab, q, f) == q # 0 /\ qtab[q].lim[f] # INFINITE

\* The tables in which every limit sits where first wins, second fills
\* says it is enforced: a limit of the second QOS that the first sets too
\* is taken away, a limit that the first leaves alone is moved from the
\* second to the first, and a limit of an association that one of the two
\* QOS sets is taken away.  p and s are the first and the second QOS.
OverlayQos(qtab, p, s) ==
    [q \in QosIds |->
       [qtab[q] EXCEPT
          !.lim = [f \in QosLimitNames |->
                     IF p = 0 \/ s = 0 \/ q \notin {p, s} THEN qtab[q].lim[f]
                     ELSE IF q = s THEN INFINITE
                     ELSE IF qtab[p].lim[f] # INFINITE THEN qtab[p].lim[f]
                     ELSE qtab[s].lim[f]]]]

OverlayAssoc(qtab, atab, p, s) ==
    [a \in AssocIds |->
       [atab[a] EXCEPT
          !.lim = [g \in AssocLimitNames |->
                     IF \E f \in QosLimitNames :
                           /\ AssocNameOf(f) = g
                           /\ (QosSets(qtab, p, f) \/ QosSets(qtab, s, f))
                     THEN INFINITE ELSE atab[a].lim[g]]]]

\* A step of checker op on job j answers, and leaves as the job's reason,
\* what the checker answers on the tables qtab and atab.
OverlayAnswers(op, j, qtab, atab) ==
    (hist' = hist /\ ret'.op = op /\ ret'.job = j) =>
       CASE op = "validate" ->
               /\ ret'.rc = Validate(qtab, atab, part, job[j]).rc
               /\ ret'.reason = Validate(qtab, atab, part, job[j]).reason
               /\ ret'.time_limit = Validate(qtab, atab, part, job[j]).time_limit
         [] op = "pre_select" ->
               /\ ret'.rc = PreSelect(accounting_enforce, qtab, atab, part, job[j]).rc
               /\ job'[j].state_reason = PreSelect(accounting_enforce, qtab, atab, part, job[j]).job.state_reason
         [] op = "post_select" ->
               /\ ret'.rc = PostSelect(accounting_enforce, qtab, atab, part, job[j], ret'.proposal[1], ret'.proposal[2], ret'.proposal[3]).rc
               /\ ret'.reason = PostSelect(accounting_enforce, qtab, atab, part, job[j], ret'.proposal[1], ret'.proposal[2], ret'.proposal[3]).reason
         [] op = "time_out" ->
               /\ ret'.rc = TimeOut(accounting_enforce, qtab, atab, part, job[j], ret'.now).rc
               /\ job'[j].state_reason = TimeOut(accounting_enforce, qtab, atab, part, job[j], ret'.now).reason

OverlayOrder(j) == _set_qos_order(qos, part, job[j])

FirstWinsSecondFills(op) ==
    \A j \in JobIds :
       OverlayAnswers(op, j,
                      OverlayQos(qos, OverlayOrder(j)[1], OverlayOrder(j)[2]),
                      OverlayAssoc(qos, assoc, OverlayOrder(j)[1],
                                   OverlayOrder(j)[2]))

\* The scratch record after a QOS has been checked differs from the record
\* before in fields that were INFINITE and now hold that QOS's limit.
FillsOnce(before, after, q) ==
    \A f \in QosLimitNames :
       \/ after[f] = before[f]
       \/ before[f] = INFINITE /\ after[f] = q.lim[f] /\ after[f] # INFINITE

PreSelectScratch(j, p, st) == _qos_job_runnable_pre_select(job[j], qos[p], st)

TimeOutScratch(j, p, st) == _qos_job_time_out(qos[p], st, JobCpuUsageMins(job[j], 130))

ValidateScratch(j, p, st) == _qos_policy_validate(job[j], INFINITE, qos, p, st, U32(job[j].tres_req_mem), TRUE)

PostSelectScratch(j, p, st) == _qos_job_runnable_post_select(accounting_enforce, job[j], qos[p], st, 1, 2, 0, U64(job[j].time_limit * 2), FALSE)

ScratchStart == [rc |-> TRUE, reason |-> "WAIT_NO_REASON", out |-> InitQosLimits]

ValidateScratchStart(j) == ScratchStart @@ [time_limit |-> job[j].time_limit, limit_set_time |-> 0, qos_time_limit |-> INFINITE]

\* In every checker the scratch record starts all INFINITE, and each of
\* the two QOS in turn fills fields that were INFINITE and no other.
ScratchFilledOnce ==
    \A j \in JobIds :
       LET p == OverlayOrder(j)[1]
           s == OverlayOrder(j)[2]
       IN  (p # 0 /\ s # 0) =>
              /\ FillsOnce(InitQosLimits, PreSelectScratch(j, p, ScratchStart).out, qos[p])
              /\ FillsOnce(PreSelectScratch(j, p, ScratchStart).out, PreSelectScratch(j, s, PreSelectScratch(j, p, ScratchStart)).out, qos[s])
              /\ FillsOnce(InitQosLimits, PostSelectScratch(j, p, ScratchStart).out, qos[p])
              /\ FillsOnce(PostSelectScratch(j, p, ScratchStart).out, PostSelectScratch(j, s, PostSelectScratch(j, p, ScratchStart)).out, qos[s])
              /\ FillsOnce(InitQosLimits, TimeOutScratch(j, p, ScratchStart).out, qos[p])
              /\ FillsOnce(TimeOutScratch(j, p, ScratchStart).out, TimeOutScratch(j, s, TimeOutScratch(j, p, ScratchStart)).out, qos[s])
              /\ FillsOnce(InitQosLimits, ValidateScratch(j, p, ValidateScratchStart(j)).out, qos[p])
              /\ FillsOnce(ValidateScratch(j, p, ValidateScratchStart(j)).out, ValidateScratch(j, s, ValidateScratch(j, p, ValidateScratchStart(j))).out, qos[s])

\* The QOS table without the max_cpus_pj limits.
WithoutMaxCpusPj(qtab) == [q \in QosIds |-> [qtab[q] EXCEPT !.lim.max_cpus_pj = INFINITE]]

\* A call of validate on job j under strict checking, with a CPU request
\* that is given, not set by an administrator and above the max_cpus_pj of
\* the QOS that supplies that limit, and which no other limit denies.
ValidateOverMaxCpusPj(j) ==
    /\ hist' = hist /\ ret'.op = "validate" /\ ret'.job = j
    /\ StrictOf(j)
    /\ job[j].limit_set.max_tres_cpu # ADMIN_SET_LIMIT
    /\ job[j].tres_req_cpu # NO_VAL
    /\ LimitQos(j, "max_cpus_pj") # 0
    /\ job[j].tres_req_cpu > qos[LimitQos(j, "max_cpus_pj")].lim.max_cpus_pj
    /\ Validate(WithoutMaxCpusPj(qos), OverlayAssoc(qos, assoc, OverlayOrder(j)[1], OverlayOrder(j)[2]), part, job[j]).rc

\* C29: first wins, second fills.  In validate, pre_select, post_select
\* and time_out, for every limit field, the answer and the reason are those
\* of the tables in which the field is set on the first QOS alone, to the
\* first QOS's value when it sets one and to the second's otherwise, and
\* in which no association has the limit when a QOS sets it; and the
\* scratch record of the effective QOS starts all INFINITE and is filled
\* field by field, at most once each.
C29_FirstWinsSecondFills ==
    /\ [](ScratchFilledOnce)
    /\ [][\A op \in {"validate", "pre_select", "post_select", "time_out"} : FirstWinsSecondFills(op)]_vars

\* C30: in validate, under strict checking, a job whose CPU request is
\* given, not admin-set and above the max_cpus_pj of the QOS that supplies
\* the limit is denied with reason WAIT_QOS_MAX_CPUS_PER_JOB.
C30_MaxCpusPjGuardCompares ==
    [][\A j \in JobIds :
          ValidateOverMaxCpusPj(j) =>
             ~ret'.rc /\ ret'.reason = "WAIT_QOS_MAX_CPUS_PER_JOB"]_vars

(***************************************************************************)
(* SpecOrder: validate on jobs that break two limits at once.  Two of the  *)
(* limits that validate can deny on are set, on the job's QOS, on the      *)
(* partition's QOS or on an association of the chain, to a value that the  *)
(* request breaks; every other limit is INFINITE.  The PART_QOS flag of    *)
(* the job's QOS decides which QOS comes first.                            *)
(***************************************************************************)
QosOrderNames ==
    <<"max_cpus_pu", "grp_cpus", "grp_mem", "max_nodes_pu", "grp_nodes",
      "grp_submit_jobs", "max_cpus_pj", "max_nodes_pj", "max_submit_jobs_pu",
      "max_wall_pj", "min_cpus_pj">>

AssocGrpOrderNames == <<"grp_cpus", "grp_tres_mem", "grp_nodes", "grp_submit_jobs">>

AssocMaxOrderNames ==
    <<"max_cpus_pj", "max_tres_mem", "max_nodes_pj", "max_submit_jobs",
      "max_wall_pj">>

SeqToSet(s) == {s[i] : i \in 1..Len(s)}

\* A limit that can be set: on QOS 1 or 2, on the user associations, on
\* the account or on the root.
OrderSlots ==
    ({"qos1", "qos2"} \X SeqToSet(QosOrderNames))
    \cup ({"own"} \X (SeqToSet(AssocGrpOrderNames) \cup SeqToSet(AssocMaxOrderNames)))
    \cup ({"acct", "root"} \X SeqToSet(AssocGrpOrderNames))

\* A value of limit name that the request of OrderJob breaks.
BrokenValue(name) == IF name = "min_cpus_pj" THEN 5 ELSE 1

OrderJob(j) ==
    [QueryJob(j, FALSE) EXCEPT !.tres_req_mem = 2, !.min_nodes = 2, !.max_nodes = 2]

InitOrder ==
    /\ accounting_enforce = {"ASSOCIATIONS", "LIMITS"}
    /\ \E a \in OrderSlots, b \in OrderSlots, first \in BOOLEAN :
          /\ a # b
          /\ qos = [q \in QosIds |->
                      [lim |-> [f \in QosLimitNames |->
                                  IF (IF q = 1 THEN "qos1" ELSE "qos2") \in
                                        {s[1] : s \in {x \in {a, b} : x[2] = f}}
                                  THEN BrokenValue(f) ELSE INFINITE],
                       flags |-> IF q = 1 /\ first THEN {"PART_QOS"} ELSE {},
                       usage |-> OverlayQosUsage]]
          /\ assoc = [i \in AssocIds |->
                        [InitAssocRec(i) EXCEPT
                           !.lim = [g \in AssocLimitNames |->
                                      IF (IF i = RootAssoc THEN "root"
                                          ELSE IF i = AcctAssoc THEN "acct"
                                          ELSE "own") \in
                                            {s[1] : s \in {x \in {a, b} : x[2] = g}}
                                      THEN BrokenValue(g) ELSE INFINITE],
                           !.usage = OverlayAssocUsage]]
    /\ part = [p \in PartIds |-> [max_time |-> INFINITE, qos_ptr |-> 2]]
    /\ job = [j \in JobIds |-> OrderJob(j)]
    /\ hist = [j \in JobIds |-> InitHist]
    /\ nops = 0
    /\ rt = NoRt
    /\ ret = NoRet

NextOrder == \E j \in JobIds : acct_policy_validate(j)

SpecOrder == InitOrder /\ [][NextOrder]_vars

\* The reason that goes with a limit of a QOS and of an association; the
\* two TRES tests of the association loop have one reason each.
QosReasonOf(name) ==
    CASE name = "max_cpus_pu" -> "WAIT_QOS_MAX_CPU_PER_USER"
      [] name = "grp_cpus" -> "WAIT_QOS_GRP_CPU"
      [] name = "grp_mem" -> "WAIT_QOS_GRP_MEMORY"
      [] name = "max_nodes_pu" -> "WAIT_QOS_MAX_NODE_PER_USER"
      [] name = "grp_nodes" -> "WAIT_QOS_GRP_NODES"
      [] name = "grp_submit_jobs" -> "WAIT_QOS_GRP_SUB_JOB"
      [] name = "max_cpus_pj" -> "WAIT_QOS_MAX_CPUS_PER_JOB"
      [] name = "max_nodes_pj" -> "WAIT_QOS_MAX_NODE_PER_JOB"
      [] name = "max_submit_jobs_pu" -> "WAIT_QOS_MAX_SUB_JOB"
      [] name = "max_wall_pj" -> "WAIT_QOS_MAX_WALL_PER_JOB"
      [] name = "min_cpus_pj" -> "WAIT_QOS_MIN_CPUS"

AssocReasonOf(name) ==
    CASE name \in {"grp_cpus", "grp_tres_mem"} -> "WAIT_ASSOC_GRP_CPU"
      [] name = "grp_nodes" -> "WAIT_ASSOC_GRP_NODES"
      [] name = "grp_submit_jobs" -> "WAIT_ASSOC_GRP_SUB_JOB"
      [] name \in {"max_cpus_pj", "max_tres_mem"} -> "WAIT_ASSOC_MAX_CPUS_PER_JOB"
      [] name = "max_nodes_pj" -> "WAIT_ASSOC_MAX_NODE_PER_JOB"
      [] name = "max_submit_jobs" -> "WAIT_ASSOC_MAX_SUB_JOB"
      [] name = "max_wall_pj" -> "WAIT_ASSOC_MAX_WALL_PER_JOB"

\* The reasons of the limits that are set, in the order of evaluation:
\* those of QOS q, and those of association a (the per-job limits for the
\* first association of the chain only).
QosSetReasons(q) ==
    IF q = 0 THEN << >>
    ELSE [i \in 1..Len(QosOrderNames) |->
            IF qos[q].lim[QosOrderNames[i]] # INFINITE
            THEN QosReasonOf(QosOrderNames[i]) ELSE "none"]

AssocSetReasons(a, names) ==
    [i \in 1..Len(names) |->
       IF assoc[a].lim[names[i]] # INFINITE THEN AssocReasonOf(names[i])
       ELSE "none"]

RECURSIVE ChainSetReasons(_, _)
ChainSetReasons(a, parent) ==
    IF a = 0 THEN << >>
    ELSE AssocSetReasons(a, AssocGrpOrderNames)
         \o (IF parent THEN << >> ELSE AssocSetReasons(a, AssocMaxOrderNames))
         \o ChainSetReasons(assoc[a].parent_assoc_ptr, TRUE)

ValidateOrderReasons(j) ==
    SelectSeq(QosSetReasons(OverlayOrder(j)[1]) \o QosSetReasons(OverlayOrder(j)[2])
                 \o ChainSetReasons(job[j].assoc_ptr, FALSE),
              LAMBDA r : r # "none")

\* C31: when validate denies a job that breaks several limits at once, the
\* reason is that of the first of them in the order of evaluation: the
\* first QOS, the second QOS (each: per-user CPU, group CPU, group memory,
\* per-user nodes, group nodes, group submit, max CPUs per job, max nodes
\* per job, per-user submit, max wall per job, min CPUs per job), then the
\* associations from the job's own upward.
C31_ReasonOfFirstBrokenLimit ==
    [][\A j \in JobIds :
          (ret'.op = "validate" /\ ret'.job = j /\ ~ret'.rc) =>
             ret'.reason = Head(ValidateOrderReasons(j))]_vars

(***************************************************************************)
(* SpecTres: validate on a job that asks for 2 of every TRES, against one  *)
(* TRES limit of an association of its chain: a group limit of its own     *)
(* association, of the account or of the root, or a per-job limit of its   *)
(* own association, at one position of the catalogue, met or broken.  The  *)
(* limit may be admin-set on the job, the job's QOS may set the limit that *)
(* goes with the CPU or memory position, and the call may be an update.    *)
(***************************************************************************)
TresHolders == {"own_grp", "own_max", "acct_grp", "root_grp"}

TresArrayWith(k, v, rest) == [i \in TresPositions |-> IF i = k THEN v ELSE rest]

\* An association record with the TRES arrays grp and max.
AssocWithTres(a, grp, max) ==
    [InitAssocRec(a) EXCEPT
       !.lim.grp_cpus = grp[1], !.lim.grp_tres_mem = grp[2],
       !.lim.max_cpus_pj = max[1], !.lim.max_tres_mem = max[2]]
    @@ [grp_tres_other |-> SubSeq(grp, 3, Len(grp)),
        max_tres_other |-> SubSeq(max, 3, Len(max))]

\* A job that asks for 2 of every TRES, with the admin-set flags admin.
TresJob(j, admin, update_call) ==
    [QueryJob(j, FALSE) EXCEPT
       !.tres_req_mem = 2, !.update_call = update_call,
       !.limit_set.max_tres_cpu = admin[1],
       !.limit_set.max_tres_mem = admin[2]]
    @@ [tres_req_other |-> OtherTres(2),
        max_tres_other |-> SubSeq(admin, 3, Len(admin))]

\* Where the holder h has its one limit: the associations of the kind.
HoldsTres(h, a) ==
    \/ h \in {"own_grp", "own_max"} /\ a \in Users
    \/ h = "acct_grp" /\ a = AcctAssoc
    \/ h = "root_grp" /\ a = RootAssoc

InitTres ==
    /\ accounting_enforce = {"ASSOCIATIONS", "LIMITS"}
    /\ \E k \in TresPositions, h \in TresHolders, v \in {1, 5},
          adm \in {0, ADMIN_SET_LIMIT}, qset \in BOOLEAN, upd \in BOOLEAN :
          /\ qos = [q \in QosIds |->
                      IF q = 1 /\ qset
                      THEN [InitQosRec EXCEPT
                              !.lim.grp_cpus = IF k = 1 /\ h # "own_max" THEN 5 ELSE INFINITE,
                              !.lim.grp_mem = IF k = 2 /\ h # "own_max" THEN 5 ELSE INFINITE]
                      ELSE InitQosRec]
          /\ assoc = [a \in AssocIds |->
                        AssocWithTres(
                          a,
                          TresArrayWith(k, IF HoldsTres(h, a) /\ h # "own_max" THEN v ELSE INFINITE, INFINITE),
                          TresArrayWith(k, IF HoldsTres(h, a) /\ h = "own_max" THEN v ELSE INFINITE, INFINITE))]
          /\ job = [j \in JobIds |-> TresJob(j, TresArrayWith(k, adm, 0), upd)]
    /\ part = [p \in PartIds |-> [max_time |-> INFINITE, qos_ptr |-> 0]]
    /\ hist = [j \in JobIds |-> InitHist]
    /\ nops = 0
    /\ rt = NoRt
    /\ ret = NoRet

NextTres == \E j \in JobIds : acct_policy_validate(j)

SpecTres == InitTres /\ [][NextTres]_vars

\* Whether a QOS of job j sets a group limit, or a per-job limit, for the
\* TRES at position k: the QOS records have such limits for CPU and
\* memory (group) and for CPU (per job).
QosSetsGrpTres(j, k) ==
    \/ k = 1 /\ LimitQos(j, "grp_cpus") # 0
    \/ k = 2 /\ LimitQos(j, "grp_mem") # 0

QosSetsMaxTres(j, k) == k = 1 /\ LimitQos(j, "max_cpus_pj") # 0

\* The request of job j breaks a TRES limit at position k that is in force
\* for it: a group limit of an association of its chain or a per-job limit
\* of its own association, finite, not admin-set on the job and not set by
\* a QOS.
BreaksTresLimit(j, k) ==
    /\ AdminSetMaxTres(job[j])[k] # ADMIN_SET_LIMIT
    /\ \/ /\ ~QosSetsGrpTres(j, k)
          /\ \E a \in JobAssocSet(j) :
                /\ AssocGrpTresCtld(assoc[a])[k] # INFINITE
                /\ JobTresReqCnt(job[j])[k] > AssocGrpTresCtld(assoc[a])[k]
       \/ /\ ~QosSetsMaxTres(j, k)
          /\ AssocMaxTresCtld(assoc[job[j].assoc_ptr])[k] # INFINITE
          /\ JobTresReqCnt(job[j])[k] > AssocMaxTresCtld(assoc[job[j].assoc_ptr])[k]

\* C32: for every position k of the TRES catalogue, under strict checking
\* on a create call, validate denies a job whose request at k is above a
\* finite group or per-job TRES limit of its association chain that is not
\* admin-set on the job and that no QOS sets.
C32_EveryTresLimitEnforced ==
    [][\A j \in JobIds, k \in TresPositions :
          (/\ ret'.op = "validate" /\ ret'.job = j
           /\ StrictOf(j) /\ ~job[j].update_call
           /\ BreaksTresLimit(j, k)) => ~ret'.rc]_vars

(***************************************************************************)
(* SpecAdmin: post-select on jobs one of whose limits an administrator has *)
(* set: the CPU count, the node count or the memory.  One limit on the CPU *)
(* count, the node count or the memory is set, on the job's QOS, on the    *)
(* partition's QOS or on an association of the chain, to a value that the  *)
(* proposals break; the proposals come with and without memory.            *)
(***************************************************************************)
AdminKinds == {"cpu", "node", "mem"}

CpuCountLimits == {"grp_cpus", "max_cpus_pj", "min_cpus_pj", "max_cpus_pu"}

NodeCountLimits == {"grp_nodes", "max_nodes_pj", "max_nodes_pu"}

MemoryLimits == {"grp_mem"}

AdminSlots ==
    ({"qos1", "qos2"} \X (CpuCountLimits \cup NodeCountLimits \cup MemoryLimits))
    \cup ({"own"} \X {"grp_cpus", "max_cpus_pj", "grp_nodes", "max_nodes_pj", "grp_mem"})
    \cup ({"acct", "root"} \X {"grp_cpus", "grp_nodes", "grp_mem"})

AdminProposals == {<<2, 4, 0>>, <<2, 4, 3>>}

\* The job with the limit of kind k marked as set by an administrator.
AdminJob(j, k) ==
    [QueryJob(j, FALSE) EXCEPT
       !.limit_set.min_tres_cpu = IF k = "cpu" THEN ADMIN_SET_LIMIT ELSE 0,
       !.limit_set.min_nodes = IF k = "node" THEN ADMIN_SET_LIMIT ELSE 0,
       !.limit_set.max_tres_mem = IF k = "mem" THEN ADMIN_SET_LIMIT ELSE 0]

InitAdmin ==
    /\ accounting_enforce = {"ASSOCIATIONS", "LIMITS"}
    /\ \E s \in AdminSlots, first \in BOOLEAN :
          /\ qos = [q \in QosIds |->
                      [lim |-> [f \in QosLimitNames |->
                                  IF s = <<IF q = 1 THEN "qos1" ELSE "qos2", f>>
                                  THEN BrokenValue(f) ELSE INFINITE],
                       flags |-> IF q = 1 /\ first THEN {"PART_QOS"} ELSE {},
                       usage |-> [OverlayQosUsage EXCEPT !.grp_used_mem = 2]]]
          /\ assoc = [i \in AssocIds |->
                        [InitAssocRec(i) EXCEPT
                           !.lim = [g \in AssocLimitNames |->
                                      IF s = <<IF i = RootAssoc THEN "root"
                                               ELSE IF i = AcctAssoc THEN "acct"
                                               ELSE "own", g>>
                                      THEN BrokenValue(g) ELSE INFINITE],
                           !.usage = [OverlayAssocUsage EXCEPT !.grp_used_mem = 2]]]
    /\ part = [p \in PartIds |-> [max_time |-> INFINITE, qos_ptr |-> 2]]
    /\ \E k \in AdminKinds : job = [j \in JobIds |-> AdminJob(j, k)]
    /\ hist = [j \in JobIds |-> InitHist]
    /\ nops = 0
    /\ rt = NoRt
    /\ ret = NoRet

NextAdmin ==
    \E j \in JobIds, p \in AdminProposals :
       acct_policy_job_runnable_post_select(j, p[1], p[2], p[3])

SpecAdmin == InitAdmin /\ [][NextAdmin]_vars

\* The reasons of a hold on a limit on the CPU count, on the node count
\* and on the memory.
CpuCountReasons ==
    {"WAIT_QOS_GRP_CPU", "WAIT_QOS_MAX_CPUS_PER_JOB", "WAIT_QOS_MIN_CPUS",
     "WAIT_QOS_MAX_CPU_PER_USER", "WAIT_ASSOC_GRP_CPU",
     "WAIT_ASSOC_MAX_CPUS_PER_JOB"}

NodeCountReasons ==
    {"WAIT_QOS_GRP_NODES", "WAIT_QOS_MAX_NODE_PER_JOB",
     "WAIT_QOS_MAX_NODE_PER_USER", "WAIT_ASSOC_GRP_NODES",
     "WAIT_ASSOC_MAX_NODE_PER_JOB"}

MemoryReasons == {"WAIT_QOS_GRP_MEMORY", "WAIT_ASSOC_GRP_MEMORY"}

\* The reasons that job j cannot be held for, given what is admin-set.
AdminSetReasons(j) ==
    (IF job[j].limit_set.min_tres_cpu = ADMIN_SET_LIMIT THEN CpuCountReasons ELSE {})
    \cup (IF job[j].limit_set.min_nodes = ADMIN_SET_LIMIT THEN NodeCountReasons ELSE {})
    \cup (IF job[j].limit_set.max_tres_mem = ADMIN_SET_LIMIT THEN MemoryReasons ELSE {})

\* C33: post-select never holds a job on a limit on the CPU count (the node
\* count, the memory) when the job's limit_set marks the CPU (the node, the
\* memory) limit as set by an administrator, whichever QOS or association
\* of the chain has the limit, group or per-job.
C33_AdminSetNeverHeld ==
    [][\A j \in JobIds :
          (PostSelectStep(j) /\ ~ret'.rc) => ret'.reason \notin AdminSetReasons(j)]_vars

(***************************************************************************)
(* What a call of acct_policy_job_time_out writes: the job's state_reason  *)
(* and the global last_job_update.                                         *)
(***************************************************************************)
\* The call changed the job's state_reason.
TimeOutReasonSet == job[ret.job].state_reason = "FAIL_TIMEOUT"

\* C34: whenever job_time_out trips on any limit, of a QOS or of an
\* association, it sets state_reason to FAIL_TIMEOUT and writes
\* last_job_update; when no limit trips it changes neither.
C34_TripSetsReasonAndStamp ==
    TimeOutReturned =>
        IF TimeOutEnabled /\ TimeOutLimitMet(ret.job, ret.now)
        THEN TimeOutReasonSet /\ ret.stamped
        ELSE job[ret.job].state_reason = ret.entry_reason /\ ~ret.stamped


(***************************************************************************)
(* SpecSat: JOB_FINI over the whole width of the counters.  Every 32-bit   *)
(* usage counter the job's JOB_FINI subtracts from starts at the same      *)
(* value, taken from both halves of the unsigned range, and so do the      *)
(* job's CPU count and node count.                                         *)
(***************************************************************************)
SatCounters == {0, 1, 3, SignBit32 - 1, SignBit32, SignBit32 + 2, Word32 - 1}

SatCpus == {1, 3, SignBit32 + 1, Word32 - 3}

SatNodes == {1, 2}

SatJob(j, cpus, nodes, mem) ==
    MkJob(((j - 1) % NumUsers) + 1, ((j - 1) % NumUsers) + 1, "acct", 1, 1,
          cpus, nodes, 1, mem)

InitSat ==
    /\ accounting_enforce = {"ASSOCIATIONS", "LIMITS"}
    /\ \E c \in SatCounters :
          /\ qos = [q \in QosIds |->
                      [InitQosRec EXCEPT
                         !.usage.grp_used_jobs = c, !.usage.grp_used_cpus = c,
                         !.usage.grp_used_mem = c, !.usage.grp_used_nodes = c,
                         !.usage.user_limit_list =
                            [u \in Users |->
                               [NewUsedLimits(u) EXCEPT
                                  !.cpus = c, !.jobs = c, !.nodes = c]]]]
          /\ assoc = [a \in AssocIds |->
                        [InitAssocRec(a) EXCEPT
                           !.usage.used_jobs = c, !.usage.grp_used_cpus = c,
                           !.usage.grp_used_mem = c, !.usage.grp_used_nodes = c]]
    /\ part = [p \in PartIds |-> [max_time |-> INFINITE, qos_ptr |-> 0]]
    /\ \E cpus \in SatCpus, nodes \in SatNodes, mem \in {0, 1} :
          job = [j \in JobIds |-> SatJob(j, cpus, nodes, mem)]
    /\ hist = [j \in JobIds |-> InitHist]
    /\ nops = 0
    /\ rt = NoRt
    /\ ret = NoRet

NextSat == \E j \in JobIds : acct_policy_job_fini(j)

SpecSat == InitSat /\ [][NextSat]_vars

\* max(0, c - d)
SaturatedBy(c, d) == IF d > c THEN 0 ELSE c - d

\* The step is a JOB_FINI of job j that reaches the counters.
FiniStep(j) ==
    /\ hist'[j].fini = hist[j].fini + 1
    /\ job[j].end_time_exp # NO_VAL
    /\ LimitsEnforced

\* The counters of the job's QOS, of the user's entry in it and of the
\* job's association after the step are the saturated differences.
FiniSaturates(j, q, a) ==
    LET cpus == job[j].total_cpus
        nodes == job[j].node_cnt
        mem == JobMemory(job[j].pn_min_memory, cpus, nodes)
        u == qos[q].usage
        v == qos'[q].usage
        ul == UsedLimitsOf(qos[q], job[j].user_id)
        vl == UsedLimitsOf(qos'[q], job[j].user_id)
        au == assoc[a].usage
        av == assoc'[a].usage
    IN  /\ v.grp_used_jobs = SaturatedBy(u.grp_used_jobs, 1)
        /\ v.grp_used_cpus = SaturatedBy(u.grp_used_cpus, cpus)
        /\ v.grp_used_mem = SaturatedBy(u.grp_used_mem, mem)
        /\ v.grp_used_nodes = SaturatedBy(u.grp_used_nodes, nodes)
        /\ vl.jobs = SaturatedBy(ul.jobs, 1)
        /\ vl.cpus = SaturatedBy(ul.cpus, cpus)
        /\ vl.nodes = SaturatedBy(ul.nodes, nodes)
        /\ av.used_jobs = SaturatedBy(au.used_jobs, 1)
        /\ av.grp_used_cpus = SaturatedBy(au.grp_used_cpus, cpus)
        /\ av.grp_used_mem = SaturatedBy(au.grp_used_mem, mem)
        /\ av.grp_used_nodes = SaturatedBy(au.grp_used_nodes, nodes)

\* C35: every JOB_FINI subtraction is saturating over the whole range of
\* the counter: for every counter value c and every delta d of the
\* counter's unsigned width the counter afterwards is max(0, c - d),
\* clamped to 0 exactly when d > c, a value of the upper half of the range
\* included.
C35_FiniSaturatesWholeRange ==
    [][\A j \in JobIds :
          FiniStep(j) =>
             FiniSaturates(j, _set_qos_order(qos, part, job[j])[1],
                           job[j].assoc_ptr)]_vars


(***************************************************************************)
(* SpecCap: scheduler threads, one per job.  A thread calls                *)
(* acct_policy_job_runnable_post_select for its job with the job's node    *)
(* and CPU counts and, when the answer is true, acct_policy_job_begin;     *)
(* each call takes and releases the lock as in SpecLock.  One QOS, the     *)
(* QOS of every job, carries the limits; the jobs belong to one user or    *)
(* to a user each.                                                         *)
(***************************************************************************)
CapLimits ==
    {[grp_cpus |-> 3, grp_nodes |-> INFINITE, max_cpus_pu |-> INFINITE],
     [grp_cpus |-> INFINITE, grp_nodes |-> 1, max_cpus_pu |-> INFINITE],
     [grp_cpus |-> INFINITE, grp_nodes |-> INFINITE, max_cpus_pu |-> 3],
     [grp_cpus |-> 3, grp_nodes |-> 1, max_cpus_pu |-> 3]}

CapJob(j, same_user) ==
    IF same_user
    THEN [QueryJob(j, FALSE) EXCEPT !.user_id = 1, !.assoc_ptr = 1, !.assoc_id = 1]
    ELSE QueryJob(j, FALSE)

InitCap ==
    /\ accounting_enforce = {"ASSOCIATIONS", "LIMITS"}
    /\ \E l \in CapLimits :
          qos = [q \in QosIds |->
                   IF q = 1
                   THEN [InitQosRec EXCEPT
                           !.lim.grp_cpus = l.grp_cpus,
                           !.lim.grp_nodes = l.grp_nodes,
                           !.lim.max_cpus_pu = l.max_cpus_pu]
                   ELSE InitQosRec]
    /\ assoc = [a \in AssocIds |-> InitAssocRec(a)]
    /\ part = [p \in PartIds |-> [max_time |-> INFINITE, qos_ptr |-> 0]]
    /\ \E same_user \in BOOLEAN : job = [j \in JobIds |-> CapJob(j, same_user)]
    /\ hist = [j \in JobIds |-> InitHist]
    /\ nops = 0
    /\ rt = [stage |-> 0, th |-> [t \in JobIds |-> IdleThread]]
    /\ ret = NoRet

\* post_select has answered true to thread t, which has not returned yet.
Selected(t) ==
    /\ rt.th[t].pc = "return" /\ rt.th[t].op = "post_select"
    /\ ~rt.th[t].res.failed

\* if (acct_policy_job_runnable_post_select(...)) acct_policy_job_begin(...)
BeginSelected(t) ==
    /\ Selected(t)
    /\ rt' = [rt EXCEPT !.th[t] = [IdleThread EXCEPT !.op = "job_begin",
                                                    !.pc = "entry",
                                                    !.held = rt.th[t].held]]
    /\ UNCHANGED <<accounting_enforce, qos, assoc, part, job, hist, nops, ret>>

\* The thread is done with its job: it was held, or it has begun.
SchedReturn(t) == ~Selected(t) /\ Return(t)

NextCap ==
    \/ \E t \in JobIds : Call(t, "post_select")
    \/ \E t \in JobIds : Entry(t)
    \/ \E t \in JobIds, axis \in {"assoc", "qos"} : LockAxis(t, axis)
    \/ \E t \in JobIds : ReadQos(t)
    \/ \E t \in JobIds : ReadAssoc(t)
    \/ \E t \in JobIds : Unlock(t)
    \/ \E t \in JobIds : BeginSelected(t)
    \/ \E t \in JobIds : WriteQos(t)
    \/ \E t \in JobIds : WriteAssoc(t)
    \/ \E t \in JobIds : SchedReturn(t)

SpecCap == InitCap /\ [][NextCap]_vars

\* The per-user CPUs in use of QOS q, over the users with an entry.
UserCpusWithin(q) ==
    \A i \in 1..Len(qos[q].usage.user_limit_list) :
       qos[q].usage.user_limit_list[i].cpus <= qos[q].lim.max_cpus_pu

\* C36: capacity is never exceeded under concurrency.  For a QOS with
\* finite limits that is the primary QOS of all jobs using it, no limit
\* admin-set, under any interleaving of scheduler threads that each call
\* post_select and, on true, job_begin for the job with the same CPU and
\* node counts: grp_used_cpus <= grp_cpus, grp_used_nodes <= grp_nodes and
\* each user's cpus <= max_cpus_pu in every reachable state.
C36_CapacityNeverExceeded ==
    \A q \in QosIds :
       /\ qos[q].lim.grp_cpus # INFINITE =>
             qos[q].usage.grp_used_cpus <= qos[q].lim.grp_cpus
       /\ qos[q].lim.grp_nodes # INFINITE =>
             qos[q].usage.grp_used_nodes <= qos[q].lim.grp_nodes
       /\ qos[q].lim.max_cpus_pu # INFINITE => UserCpusWithin(q)


\* C37: when validate returns false, job_desc.time_limit and
\* limit_set.time have the values they had on entry: a denied submission
\* is not left with a time limit that a limit set.
C37_DenialLeavesTimeLimit ==
    (ret.op = "validate" /\ ~ret.rc) =>
        /\ ret.time_limit = job[ret.job].time_limit
        /\ ret.limit_set_time = job[ret.job].limit_set.time


(***************************************************************************)
(* SpecSubmit: one validation of a submission of one to three tasks        *)
(* against a per-user submit cap on the job's QOS or on the partition's,   *)
(* the user with or without an entry in that QOS's per-user list.          *)
(***************************************************************************)
SubmitCaps == {0, 1, 2, 3}

SubmitCounts == {0, 1, 2}

SubmitSizes == {1, 2, 3}

\* The per-user list of the QOS: empty, or the entry of each user.
SubmitLists ==
    {<< >>} \cup {[u \in Users |-> [NewUsedLimits(u) EXCEPT !.submit_jobs = n]] :
                     n \in SubmitCounts}

InitSubmit ==
    /\ accounting_enforce = {"ASSOCIATIONS", "LIMITS"}
    /\ \E holder \in QosIds, cap \in SubmitCaps, list \in SubmitLists :
          qos = [q \in QosIds |->
                   IF q = holder
                   THEN [InitQosRec EXCEPT !.lim.max_submit_jobs_pu = cap,
                                           !.usage.user_limit_list = list]
                   ELSE InitQosRec]
    /\ assoc = [a \in AssocIds |-> InitAssocRec(a)]
    /\ part = [p \in PartIds |-> [max_time |-> INFINITE, qos_ptr |-> 2]]
    /\ \E job_cnt \in SubmitSizes, reason_given \in BOOLEAN :
          job = [j \in JobIds |->
                   [QueryJob(j, FALSE) EXCEPT !.job_cnt = job_cnt,
                                              !.reason_given = reason_given]]
    /\ hist = [j \in JobIds |-> InitHist]
    /\ nops = 0
    /\ rt = NoRt
    /\ ret = NoRet

NextSubmit == \E j \in JobIds : acct_policy_validate(j)

SpecSubmit == InitSubmit /\ [][NextSubmit]_vars

\* The submission of job j goes over the cap of the QOS that supplies it.
OverSubmitCap(j) ==
    LET q == LimitQos(j, "max_submit_jobs_pu")
    IN  /\ q # 0
        /\ SubmitJobsOfUser(qos, q, job[j].user_id) + job[j].job_cnt
              > qos[q].lim.max_submit_jobs_pu

\* C38: validate enforces the per-user submit cap of the QOS for every
\* submission size: with a finite max_submit_jobs_pu on the QOS that
\* supplies it, validate denies with WAIT_QOS_MAX_SUB_JOB whenever the
\* user's submit_jobs (0 when the user has no entry yet) plus job_cnt is
\* above the cap.
C38_SubmitCapEnforced ==
    (ret.op = "validate" /\ OverSubmitCap(ret.job)) =>
        /\ ~ret.rc
        /\ job[ret.job].reason_given => ret.reason = "WAIT_QOS_MAX_SUB_JOB"


(***************************************************************************)
(* SpecCpuMins: one validation against a per-job CPU-minutes limit on the  *)
(* job's QOS or on the partition's, of a request whose CPU count and       *)
(* minimum node count are each a number, 0 included, or unspecified.       *)
(***************************************************************************)
CpuMinsLimits == {8, 20}

CpuMinsCpus == {0, 1, 4, NO_VAL}

CpuMinsNodes == {0, 2, 6, NO_VAL}

InitCpuMins ==
    /\ accounting_enforce = {"ASSOCIATIONS", "LIMITS"}
    /\ \E holder \in QosIds, lim \in CpuMinsLimits :
          qos = [q \in QosIds |->
                   IF q = holder
                   THEN [InitQosRec EXCEPT !.lim.max_cpu_mins_pj = lim]
                   ELSE InitQosRec]
    /\ assoc = [a \in AssocIds |-> InitAssocRec(a)]
    /\ part = [p \in PartIds |-> [max_time |-> INFINITE, qos_ptr |-> 2]]
    /\ \E cpus \in CpuMinsCpus, nodes \in CpuMinsNodes, tl \in {NO_VAL, 3} :
          job = [j \in JobIds |->
                   [QueryJob(j, FALSE) EXCEPT
                      !.tres_req_cpu = cpus, !.min_nodes = nodes,
                      !.max_nodes = nodes, !.time_limit = tl]]
    /\ hist = [j \in JobIds |-> InitHist]
    /\ nops = 0
    /\ rt = NoRt
    /\ ret = NoRet

NextCpuMins == \E j \in JobIds : acct_policy_validate(j)

SpecCpuMins == InitCpuMins /\ [][NextCpuMins]_vars

\* The call for job j gets to the division.
ReachesCpuMins(j) ==
    /\ LimitQos(j, "max_cpu_mins_pj") # 0
    /\ (job[j].tres_req_cpu # NO_VAL \/ job[j].min_nodes # NO_VAL)

\* max(req_cpus, req_nodes) over the specified values.
SpecifiedMax(j) ==
    LET cpus == job[j].tres_req_cpu
        nodes == job[j].min_nodes
    IN  IF cpus = NO_VAL THEN nodes
        ELSE IF nodes = NO_VAL THEN cpus
        ELSE IF cpus > nodes THEN cpus ELSE nodes

\* The call for job j returned having used ceiling c: an unspecified time
\* limit is c afterwards, a given one is admitted exactly when within c.
ReturnedWithCeiling(j, c) ==
    /\ ret.reason # "SIGFPE"
    /\ IF job[j].time_limit = NO_VAL
       THEN ret.rc /\ ret.time_limit = c
       ELSE ret.rc <=> job[j].time_limit <= c

\* C39: in validate the wall ceiling implied by max_cpu_mins_pj of a QOS is
\* max_cpu_mins_pj / max(req_cpus, req_nodes) over the specified values
\* only, an unspecified NO_VAL is not the divisor, and the divisor is not
\* zero for any descriptor that gets to the computation.
C39_CeilingOverSpecifiedCounts ==
    (ret.op = "validate" /\ ReachesCpuMins(ret.job)) =>
        /\ SpecifiedMax(ret.job) # 0
        /\ ReturnedWithCeiling(ret.job,
              U32(qos[LimitQos(ret.job, "max_cpu_mins_pj")].lim.max_cpu_mins_pj
                     \div SpecifiedMax(ret.job)))


(***************************************************************************)
(* The per-user list of a QOS under the usage adjuster.                    *)
(***************************************************************************)
\* No uid has two entries in the list of a QOS.
OneEntryPerUid(qtab) ==
    \A q \in QosIds :
       \A i, k \in 1..Len(qtab[q].usage.user_limit_list) :
          i # k => qtab[q].usage.user_limit_list[i].uid
                      # qtab[q].usage.user_limit_list[k].uid

EntriesOf(qtab, q, uid) ==
    {i \in 1..Len(qtab[q].usage.user_limit_list) :
        qtab[q].usage.user_limit_list[i].uid = uid}

\* The step is a call of the adjuster for job j that gets to the records.
AdjusterStep(j) ==
    /\ LimitsEnforced /\ Resolves(j)
    /\ \/ hist'[j].add = hist[j].add + 1
       \/ hist'[j].rem = hist[j].rem + 1
       \/ hist'[j].begin = hist[j].begin + 1
       \/ hist'[j].fini = hist[j].fini + 1 /\ job[j].end_time_exp # NO_VAL

\* The entry of job j's user after a step that found none: all zero, with
\* the delta of the step on top.
FirstEntry(j) ==
    [uid |-> job[j].user_id,
     submit_jobs |-> IF hist'[j].add = hist[j].add + 1 THEN 1 ELSE 0,
     jobs |-> IF hist'[j].begin = hist[j].begin + 1 THEN 1 ELSE 0,
     cpus |-> IF hist'[j].begin = hist[j].begin + 1 THEN job[j].total_cpus ELSE 0,
     nodes |-> IF hist'[j].begin = hist[j].begin + 1 THEN job[j].node_cnt ELSE 0]

\* C40: after any sequence of usage-adjuster calls the per-user list of
\* each QOS holds at most one entry per uid; a call of any type, REM_SUBMIT
\* and JOB_FINI included, that finds no entry for the job's uid creates
\* one, whose counters start at 0.
C40_OneEntryPerUidCreatedZero ==
    [][/\ OneEntryPerUid(qos) /\ OneEntryPerUid(qos')
       /\ \A j \in JobIds :
             AdjusterStep(j) =>
                \A q \in JobQosSet(j) :
                   EntriesOf(qos, q, job[j].user_id) = {} =>
                      /\ EntriesOf(qos', q, job[j].user_id) # {}
                      /\ \A i \in EntriesOf(qos', q, job[j].user_id) :
                            qos'[q].usage.user_limit_list[i] = FirstEntry(j)]_vars

\* The first call of all was a REM_SUBMIT or a JOB_FINI of a job with two
\* QOS, and each of them holds an all-zero entry for the job's user.
C40_Witness ==
    \E j \in JobIds :
        /\ nops = 1 /\ hist[j].rem + hist[j].fini = 1
        /\ LimitsEnforced /\ Resolves(j)
        /\ Cardinality(JobQosSet(j)) = 2
        /\ \A q \in JobQosSet(j) :
              /\ Len(qos[q].usage.user_limit_list) = 1
              /\ qos[q].usage.user_limit_list[1] = NewUsedLimits(job[j].user_id)

====
